---- MODULE Spec2Model ----
(***************************************************************************)
(* License compatibility and risk analysis engine of codicense:            *)
(* LicenseDatabase (catalog), CompatibilityMatrix, ConflictDetector,       *)
(* DynamicRiskEngine and ILIScanner, as state machines over one call.      *)
(*                                                                         *)
(* The engine keeps no state between calls.  A behaviour of the model is   *)
(* one call: the initial state holds the operation and its inputs, the     *)
(* operation's action computes the result.                                 *)
(***************************************************************************)
EXTENDS Integers, Sequences, FiniteSets, TLC

VARIABLES
  rules,   \* CompatibilityMatrix.rules, the rule table built by the constructor
  op,      \* the operation called
  args,    \* its arguments
  ret,     \* its result, once done
  done,    \* whether the call has returned
  uuids,   \* how many uuids uuidv4() has issued in this process
  clock,   \* the reading of the system clock
  deterministic,  \* whether CODICENSE_DETERMINISTIC is '1' in the environment
  log      \* the calls that have returned, in order: operation, arguments, result

vars == <<rules, op, args, ret, done, uuids, clock, deterministic, log>>

-----------------------------------------------------------------------------
(* JavaScript string primitives the engine uses.                           *)

CharAt(s, i) == SubSeq(s, i, i)

IsSpace(c) == c \in {" ", "\t"}

UpperLetters == "ABCDEFGHIJKLMNOPQRSTUVWXYZ"
LowerLetters == "abcdefghijklmnopqrstuvwxyz"

LowerChar(c) ==
  IF \E k \in 1..26 : CharAt(UpperLetters, k) = c
  THEN CharAt(LowerLetters, CHOOSE k \in 1..26 : CharAt(UpperLetters, k) = c)
  ELSE c

RECURSIVE toLowerCase(_)
toLowerCase(s) ==
  IF s = "" THEN "" ELSE LowerChar(CharAt(s, 1)) \o toLowerCase(SubSeq(s, 2, Len(s)))

\* String.prototype.includes
includes(s, sub) ==
  \E i \in 1..(Len(s) - Len(sub) + 1) : SubSeq(s, i, i + Len(sub) - 1) = sub

RECURSIVE trimStart(_)
trimStart(s) ==
  IF s # "" /\ IsSpace(CharAt(s, 1)) THEN trimStart(SubSeq(s, 2, Len(s))) ELSE s

RECURSIVE trimEnd(_)
trimEnd(s) ==
  IF s # "" /\ IsSpace(CharAt(s, Len(s))) THEN trimEnd(SubSeq(s, 1, Len(s) - 1)) ELSE s

\* String.prototype.trim
trim(s) == trimEnd(trimStart(s))

\* Math.max and Math.min of two numbers
Max(a, b) == IF a >= b THEN a ELSE b
Min(a, b) == IF a <= b THEN a ELSE b

-----------------------------------------------------------------------------
(* LicenseDatabase.                                                        *)

\* The ids of the SPDX list the catalog is loaded from, cut to the ones the
\* rule table and the tests name.
SpdxIds ==
  {"MIT", "Apache-2.0", "BSD-3-Clause", "BSD-2-Clause", "ISC", "0BSD", "Zlib",
   "Unlicense", "CC0-1.0", "WTFPL", "Artistic-2.0", "PSF-2.0",
   "LGPL-2.1", "LGPL-3.0", "MPL-2.0", "MPL-1.1", "EPL-2.0", "EPL-1.0", "CDDL-1.0",
   "EUPL-1.2", "GPL-2.0", "GPL-3.0", "AGPL-3.0"}

\* getCoreDefinitions: id -> category, for the ids it sets.
getCoreDefinitions ==
  [id \in {"MIT", "Apache-2.0", "BSD-3-Clause", "BSD-2-Clause", "ISC",
           "LGPL-2.1", "LGPL-3.0", "MPL-2.0", "GPL-2.0", "GPL-3.0", "AGPL-3.0"} |->
     IF id \in {"MIT", "Apache-2.0", "BSD-3-Clause", "BSD-2-Clause", "ISC"}
       THEN "permissive"
     ELSE IF id \in {"LGPL-2.1", "LGPL-3.0", "MPL-2.0"} THEN "weak-copyleft"
     ELSE "strong-copyleft"]

inferCategory(licenseId) ==
  LET id == toLowerCase(licenseId) IN
  IF includes(id, "gpl") \/ includes(id, "agpl") THEN "strong-copyleft"
  ELSE IF includes(id, "lgpl") \/ includes(id, "mpl") \/ includes(id, "epl")
          \/ includes(id, "cddl") THEN "weak-copyleft"
  ELSE IF includes(id, "proprietary") \/ id = "unlicensed" THEN "proprietary"
  ELSE "permissive"

\* loadSpdxLicenses: the licenses map, id -> License (id and category kept).
licenses ==
  [id \in SpdxIds |->
     [id |-> id,
      category |-> IF id \in DOMAIN getCoreDefinitions
                     THEN getCoreDefinitions[id] ELSE inferCategory(id)]]

\* setupAliases
aliasMap ==
  [a \in {"GPL-2.0-only", "GPL-2.0-or-later", "GPL-3.0-only", "GPL-3.0-or-later",
          "AGPL-3.0-only", "AGPL-3.0-or-later", "LGPL-2.1-only", "LGPL-2.1-or-later",
          "LGPL-3.0-only", "LGPL-3.0-or-later",
          "BSD", "Apache", "Apache 2.0", "Apache License 2.0"} |->
     CASE a \in {"GPL-2.0-only", "GPL-2.0-or-later"} -> "GPL-2.0"
       [] a \in {"GPL-3.0-only", "GPL-3.0-or-later"} -> "GPL-3.0"
       [] a \in {"AGPL-3.0-only", "AGPL-3.0-or-later"} -> "AGPL-3.0"
       [] a \in {"LGPL-2.1-only", "LGPL-2.1-or-later"} -> "LGPL-2.1"
       [] a \in {"LGPL-3.0-only", "LGPL-3.0-or-later"} -> "LGPL-3.0"
       [] a = "BSD" -> "BSD-3-Clause"
       [] OTHER -> "Apache-2.0"]

\* The value of a lookup that finds nothing.
undefined == [id |-> "undefined", category |-> "undefined"]

getLicense(id) ==
  IF id \in DOMAIN licenses THEN licenses[id]
  ELSE IF id \in DOMAIN aliasMap
    THEN (IF aliasMap[id] \in DOMAIN licenses THEN licenses[aliasMap[id]] ELSE undefined)
  ELSE undefined

normalizeLicenseId(id) ==
  LET normalized == trim(id) IN
  IF normalized \in DOMAIN licenses THEN normalized
  ELSE IF normalized \in DOMAIN aliasMap THEN aliasMap[normalized]
  ELSE normalized

-----------------------------------------------------------------------------
(* CompatibilityMatrix.                                                    *)

\* buildRules: the rule table in the order the constructor pushes it.  id is the
\* id addRule generates (generateRuleId), "undefined" for the rules pushed
\* without one.
buildRules ==
  <<
    [projectLicense |-> "MIT", dependencyLicense |-> "MIT", linkingModel |-> "static",
     distributionModel |-> "proprietary", compatible |-> TRUE, severity |-> "LOW",
     id |-> "MIT_MIT_STA_PRO_001",
     reason |-> "MIT is compatible with MIT."],
    [projectLicense |-> "MIT", dependencyLicense |-> "Apache-2.0", linkingModel |-> "static",
     distributionModel |-> "proprietary", compatible |-> TRUE, severity |-> "LOW",
     id |-> "MIT_APACHE_STA_PRO_002",
     reason |-> "Apache-2.0 is compatible with MIT projects."],
    [projectLicense |-> "MIT", dependencyLicense |-> "BSD-3-Clause", linkingModel |-> "static",
     distributionModel |-> "proprietary", compatible |-> TRUE, severity |-> "LOW",
     id |-> "MIT_BSD3CL_STA_PRO_003",
     reason |-> "BSD-3-Clause is compatible with MIT projects."],
    [projectLicense |-> "MIT", dependencyLicense |-> "ISC", linkingModel |-> "static",
     distributionModel |-> "proprietary", compatible |-> TRUE, severity |-> "LOW",
     id |-> "MIT_ISC_STA_PRO_004",
     reason |-> "ISC is compatible with MIT projects."],
    [projectLicense |-> "MIT", dependencyLicense |-> "GPL-2.0", linkingModel |-> "static",
     distributionModel |-> "proprietary", compatible |-> FALSE, severity |-> "CRITICAL",
     id |-> "MIT_GPL2.0_STA_PRO_005",
     reason |-> "GPL-2.0 requires the entire combined work to be GPL-2.0. Static linking with proprietary MIT code creates a derivative work that must be GPL-2.0."],
    [projectLicense |-> "MIT", dependencyLicense |-> "GPL-3.0", linkingModel |-> "static",
     distributionModel |-> "proprietary", compatible |-> FALSE, severity |-> "CRITICAL",
     id |-> "MIT_GPL3.0_STA_PRO_006",
     reason |-> "GPL-3.0 requires the entire combined work to be GPL-3.0. Static linking with proprietary MIT code creates a derivative work that must be GPL-3.0."],
    [projectLicense |-> "MIT", dependencyLicense |-> "AGPL-3.0", linkingModel |-> "static",
     distributionModel |-> "proprietary", compatible |-> FALSE, severity |-> "CRITICAL",
     id |-> "MIT_AGPL3._STA_PRO_007",
     reason |-> "AGPL-3.0 requires the entire combined work to be AGPL-3.0, including server-side code. This conflicts with proprietary distribution."],
    [projectLicense |-> "MIT", dependencyLicense |-> "AGPL-3.0", linkingModel |-> "static",
     distributionModel |-> "saas", compatible |-> FALSE, severity |-> "CRITICAL",
     id |-> "MIT_AGPL3._STA_SAA_008",
     reason |-> "AGPL-3.0 requires disclosure of all source code for SaaS applications. This conflicts with proprietary SaaS."],
    [projectLicense |-> "MIT", dependencyLicense |-> "LGPL-2.1", linkingModel |-> "dynamic",
     distributionModel |-> "proprietary", compatible |-> TRUE, severity |-> "LOW",
     id |-> "MIT_LGPL2._DYN_PRO_009",
     reason |-> "LGPL-2.1 allows dynamic linking with proprietary code."],
    [projectLicense |-> "MIT", dependencyLicense |-> "LGPL-2.1", linkingModel |-> "static",
     distributionModel |-> "proprietary", compatible |-> FALSE, severity |-> "HIGH",
     id |-> "MIT_LGPL2._STA_PRO_010",
     reason |-> "LGPL-2.1 with static linking requires providing object files to allow re-linking. This is often impractical for proprietary software."],
    [projectLicense |-> "MIT", dependencyLicense |-> "LGPL-3.0", linkingModel |-> "dynamic",
     distributionModel |-> "proprietary", compatible |-> TRUE, severity |-> "LOW",
     id |-> "MIT_LGPL3._DYN_PRO_011",
     reason |-> "LGPL-3.0 allows dynamic linking with proprietary code."],
    [projectLicense |-> "MIT", dependencyLicense |-> "MPL-2.0", linkingModel |-> "static",
     distributionModel |-> "proprietary", compatible |-> TRUE, severity |-> "MEDIUM",
     id |-> "MIT_MPL2.0_STA_PRO_012",
     reason |-> "MPL-2.0 is file-level copyleft. Only modified MPL files need to be disclosed."],
    [projectLicense |-> "Apache-2.0", dependencyLicense |-> "MIT", linkingModel |-> "static",
     distributionModel |-> "proprietary", compatible |-> TRUE, severity |-> "LOW",
     id |-> "undefined",
     reason |-> "MIT is compatible with Apache-2.0 projects."],
    [projectLicense |-> "Apache-2.0", dependencyLicense |-> "Apache-2.0", linkingModel |-> "static",
     distributionModel |-> "proprietary", compatible |-> TRUE, severity |-> "LOW",
     id |-> "undefined",
     reason |-> "Apache-2.0 is compatible with Apache-2.0."],
    [projectLicense |-> "Apache-2.0", dependencyLicense |-> "GPL-2.0", linkingModel |-> "static",
     distributionModel |-> "proprietary", compatible |-> FALSE, severity |-> "CRITICAL",
     id |-> "undefined",
     reason |-> "GPL-2.0 is incompatible with Apache-2.0 due to patent clause conflicts."],
    [projectLicense |-> "Apache-2.0", dependencyLicense |-> "GPL-3.0", linkingModel |-> "static",
     distributionModel |-> "proprietary", compatible |-> FALSE, severity |-> "CRITICAL",
     id |-> "undefined",
     reason |-> "GPL-3.0 requires the entire work to be GPL-3.0. Apache-2.0 cannot be relicensed as GPL-3.0 for proprietary projects."],
    [projectLicense |-> "GPL-3.0", dependencyLicense |-> "MIT", linkingModel |-> "static",
     distributionModel |-> "open-source", compatible |-> TRUE, severity |-> "LOW",
     id |-> "undefined",
     reason |-> "MIT code can be incorporated into GPL-3.0 projects."],
    [projectLicense |-> "GPL-3.0", dependencyLicense |-> "Apache-2.0", linkingModel |-> "static",
     distributionModel |-> "open-source", compatible |-> TRUE, severity |-> "LOW",
     id |-> "undefined",
     reason |-> "Apache-2.0 is compatible with GPL-3.0 (but not GPL-2.0)."],
    [projectLicense |-> "GPL-3.0", dependencyLicense |-> "GPL-3.0", linkingModel |-> "static",
     distributionModel |-> "open-source", compatible |-> TRUE, severity |-> "LOW",
     id |-> "undefined",
     reason |-> "GPL-3.0 is compatible with GPL-3.0."],
    [projectLicense |-> "GPL-2.0", dependencyLicense |-> "Apache-2.0", linkingModel |-> "static",
     distributionModel |-> "open-source", compatible |-> FALSE, severity |-> "HIGH",
     id |-> "undefined",
     reason |-> "GPL-2.0 is incompatible with Apache-2.0 due to patent clause conflicts."],
    [projectLicense |-> "MIT", dependencyLicense |-> "GPL-3.0", linkingModel |-> "microservice",
     distributionModel |-> "proprietary", compatible |-> TRUE, severity |-> "LOW",
     id |-> "undefined",
     reason |-> "GPL-3.0 in a separate microservice (communicating over network) does not create a derivative work. Each service can have independent licenses."],
    [projectLicense |-> "MIT", dependencyLicense |-> "AGPL-3.0", linkingModel |-> "microservice",
     distributionModel |-> "saas", compatible |-> FALSE, severity |-> "HIGH",
     id |-> "undefined",
     reason |-> "AGPL-3.0 requires disclosure of source code even in microservice architecture if services interact."],
    [projectLicense |-> "BSD-3-Clause", dependencyLicense |-> "MIT", linkingModel |-> "static",
     distributionModel |-> "proprietary", compatible |-> TRUE, severity |-> "LOW",
     id |-> "undefined",
     reason |-> "MIT is compatible with BSD-3-Clause projects."],
    [projectLicense |-> "BSD-3-Clause", dependencyLicense |-> "Apache-2.0", linkingModel |-> "static",
     distributionModel |-> "proprietary", compatible |-> TRUE, severity |-> "LOW",
     id |-> "undefined",
     reason |-> "Apache-2.0 is compatible with BSD-3-Clause projects."],
    [projectLicense |-> "BSD-3-Clause", dependencyLicense |-> "BSD-3-Clause", linkingModel |-> "static",
     distributionModel |-> "proprietary", compatible |-> TRUE, severity |-> "LOW",
     id |-> "undefined",
     reason |-> "BSD-3-Clause is compatible with itself."],
    [projectLicense |-> "BSD-3-Clause", dependencyLicense |-> "BSD-2-Clause", linkingModel |-> "static",
     distributionModel |-> "proprietary", compatible |-> TRUE, severity |-> "LOW",
     id |-> "undefined",
     reason |-> "BSD-2-Clause is compatible with BSD-3-Clause."],
    [projectLicense |-> "BSD-3-Clause", dependencyLicense |-> "ISC", linkingModel |-> "static",
     distributionModel |-> "proprietary", compatible |-> TRUE, severity |-> "LOW",
     id |-> "undefined",
     reason |-> "ISC is compatible with BSD-3-Clause."],
    [projectLicense |-> "BSD-3-Clause", dependencyLicense |-> "GPL-3.0", linkingModel |-> "static",
     distributionModel |-> "proprietary", compatible |-> FALSE, severity |-> "CRITICAL",
     id |-> "undefined",
     reason |-> "GPL-3.0 requires derivative works to be GPL-3.0. Static linking creates incompatibility with proprietary BSD projects."],
    [projectLicense |-> "BSD-3-Clause", dependencyLicense |-> "GPL-2.0", linkingModel |-> "static",
     distributionModel |-> "proprietary", compatible |-> FALSE, severity |-> "CRITICAL",
     id |-> "undefined",
     reason |-> "GPL-2.0 requires derivative works to be GPL-2.0. Static linking creates incompatibility with proprietary BSD projects."],
    [projectLicense |-> "ISC", dependencyLicense |-> "MIT", linkingModel |-> "static",
     distributionModel |-> "proprietary", compatible |-> TRUE, severity |-> "LOW",
     id |-> "undefined",
     reason |-> "MIT is compatible with ISC projects."],
    [projectLicense |-> "ISC", dependencyLicense |-> "ISC", linkingModel |-> "static",
     distributionModel |-> "proprietary", compatible |-> TRUE, severity |-> "LOW",
     id |-> "undefined",
     reason |-> "ISC is compatible with ISC."],
    [projectLicense |-> "ISC", dependencyLicense |-> "Apache-2.0", linkingModel |-> "static",
     distributionModel |-> "proprietary", compatible |-> TRUE, severity |-> "LOW",
     id |-> "undefined",
     reason |-> "Apache-2.0 is compatible with ISC."],
    [projectLicense |-> "ISC", dependencyLicense |-> "BSD-3-Clause", linkingModel |-> "static",
     distributionModel |-> "proprietary", compatible |-> TRUE, severity |-> "LOW",
     id |-> "undefined",
     reason |-> "BSD-3-Clause is compatible with ISC."],
    [projectLicense |-> "ISC", dependencyLicense |-> "GPL-3.0", linkingModel |-> "static",
     distributionModel |-> "proprietary", compatible |-> FALSE, severity |-> "CRITICAL",
     id |-> "undefined",
     reason |-> "GPL-3.0 requires derivative works to be GPL-3.0. Static linking creates incompatibility with proprietary ISC projects."],
    [projectLicense |-> "0BSD", dependencyLicense |-> "MIT", linkingModel |-> "static",
     distributionModel |-> "proprietary", compatible |-> TRUE, severity |-> "LOW",
     id |-> "undefined",
     reason |-> "MIT is compatible with 0BSD (public domain equivalent)."],
    [projectLicense |-> "0BSD", dependencyLicense |-> "GPL-3.0", linkingModel |-> "static",
     distributionModel |-> "proprietary", compatible |-> FALSE, severity |-> "CRITICAL",
     id |-> "undefined",
     reason |-> "GPL-3.0 requires derivative works to be GPL-3.0. Conflicts with proprietary 0BSD projects."],
    [projectLicense |-> "MIT", dependencyLicense |-> "0BSD", linkingModel |-> "static",
     distributionModel |-> "proprietary", compatible |-> TRUE, severity |-> "LOW",
     id |-> "undefined",
     reason |-> "0BSD (public domain equivalent) is compatible with everything."],
    [projectLicense |-> "MIT", dependencyLicense |-> "Unlicense", linkingModel |-> "static",
     distributionModel |-> "proprietary", compatible |-> TRUE, severity |-> "LOW",
     id |-> "undefined",
     reason |-> "Unlicense (public domain) is compatible with all licenses."],
    [projectLicense |-> "Apache-2.0", dependencyLicense |-> "Unlicense", linkingModel |-> "static",
     distributionModel |-> "proprietary", compatible |-> TRUE, severity |-> "LOW",
     id |-> "undefined",
     reason |-> "Unlicense (public domain) is compatible with all licenses."],
    [projectLicense |-> "GPL-3.0", dependencyLicense |-> "Unlicense", linkingModel |-> "static",
     distributionModel |-> "open-source", compatible |-> TRUE, severity |-> "LOW",
     id |-> "undefined",
     reason |-> "Unlicense (public domain) can be incorporated into GPL projects."],
    [projectLicense |-> "MIT", dependencyLicense |-> "CC0-1.0", linkingModel |-> "static",
     distributionModel |-> "proprietary", compatible |-> TRUE, severity |-> "LOW",
     id |-> "undefined",
     reason |-> "CC0 (public domain dedication) is compatible with all licenses."],
    [projectLicense |-> "Apache-2.0", dependencyLicense |-> "CC0-1.0", linkingModel |-> "static",
     distributionModel |-> "proprietary", compatible |-> TRUE, severity |-> "LOW",
     id |-> "undefined",
     reason |-> "CC0 (public domain dedication) is compatible with all licenses."],
    [projectLicense |-> "MIT", dependencyLicense |-> "WTFPL", linkingModel |-> "static",
     distributionModel |-> "proprietary", compatible |-> TRUE, severity |-> "LOW",
     id |-> "undefined",
     reason |-> "WTFPL is compatible with all licenses (extremely permissive)."],
    [projectLicense |-> "Apache-2.0", dependencyLicense |-> "WTFPL", linkingModel |-> "static",
     distributionModel |-> "proprietary", compatible |-> TRUE, severity |-> "LOW",
     id |-> "undefined",
     reason |-> "WTFPL is compatible with all licenses (extremely permissive)."],
    [projectLicense |-> "MIT", dependencyLicense |-> "Artistic-2.0", linkingModel |-> "static",
     distributionModel |-> "proprietary", compatible |-> TRUE, severity |-> "LOW",
     id |-> "undefined",
     reason |-> "Artistic-2.0 is a permissive license compatible with MIT."],
    [projectLicense |-> "Apache-2.0", dependencyLicense |-> "Artistic-2.0", linkingModel |-> "static",
     distributionModel |-> "proprietary", compatible |-> TRUE, severity |-> "LOW",
     id |-> "undefined",
     reason |-> "Artistic-2.0 is compatible with Apache-2.0."],
    [projectLicense |-> "MIT", dependencyLicense |-> "Zlib", linkingModel |-> "static",
     distributionModel |-> "proprietary", compatible |-> TRUE, severity |-> "LOW",
     id |-> "undefined",
     reason |-> "Zlib is a permissive license compatible with MIT."],
    [projectLicense |-> "Apache-2.0", dependencyLicense |-> "Zlib", linkingModel |-> "static",
     distributionModel |-> "proprietary", compatible |-> TRUE, severity |-> "LOW",
     id |-> "undefined",
     reason |-> "Zlib is a permissive license compatible with Apache-2.0."],
    [projectLicense |-> "MIT", dependencyLicense |-> "PSF-2.0", linkingModel |-> "static",
     distributionModel |-> "proprietary", compatible |-> TRUE, severity |-> "LOW",
     id |-> "undefined",
     reason |-> "PSF-2.0 is compatible with permissive licenses."],
    [projectLicense |-> "MIT", dependencyLicense |-> "EUPL-1.2", linkingModel |-> "static",
     distributionModel |-> "proprietary", compatible |-> FALSE, severity |-> "HIGH",
     id |-> "undefined",
     reason |-> "EUPL-1.2 is a copyleft license. Derivative works must be EUPL-1.2 or compatible."],
    [projectLicense |-> "GPL-3.0", dependencyLicense |-> "EUPL-1.2", linkingModel |-> "static",
     distributionModel |-> "open-source", compatible |-> TRUE, severity |-> "LOW",
     id |-> "undefined",
     reason |-> "EUPL-1.2 is explicitly compatible with GPL-3.0."],
    [projectLicense |-> "MIT", dependencyLicense |-> "EPL-2.0", linkingModel |-> "static",
     distributionModel |-> "proprietary", compatible |-> FALSE, severity |-> "HIGH",
     id |-> "undefined",
     reason |-> "EPL-2.0 requires derivative works to be EPL-2.0 or a compatible license. May conflict with proprietary use."],
    [projectLicense |-> "MIT", dependencyLicense |-> "EPL-2.0", linkingModel |-> "dynamic",
     distributionModel |-> "proprietary", compatible |-> TRUE, severity |-> "MEDIUM",
     id |-> "undefined",
     reason |-> "EPL-2.0 allows dynamic linking with proprietary code (secondary license provision)."],
    [projectLicense |-> "Apache-2.0", dependencyLicense |-> "EPL-2.0", linkingModel |-> "static",
     distributionModel |-> "proprietary", compatible |-> FALSE, severity |-> "HIGH",
     id |-> "undefined",
     reason |-> "EPL-2.0 copyleft requirements conflict with proprietary Apache projects."],
    [projectLicense |-> "MIT", dependencyLicense |-> "CDDL-1.0", linkingModel |-> "static",
     distributionModel |-> "proprietary", compatible |-> TRUE, severity |-> "MEDIUM",
     id |-> "undefined",
     reason |-> "CDDL-1.0 is file-level copyleft. Only modified CDDL files need to be disclosed."],
    [projectLicense |-> "GPL-2.0", dependencyLicense |-> "CDDL-1.0", linkingModel |-> "static",
     distributionModel |-> "open-source", compatible |-> FALSE, severity |-> "CRITICAL",
     id |-> "undefined",
     reason |-> "CDDL-1.0 is incompatible with GPL-2.0 due to conflicting copyleft terms."],
    [projectLicense |-> "MIT", dependencyLicense |-> "GPL-2.0", linkingModel |-> "static",
     distributionModel |-> "open-source", compatible |-> TRUE, severity |-> "MEDIUM",
     id |-> "undefined",
     reason |-> "When distributing as open-source, MIT code can be incorporated into GPL-2.0 (but entire work becomes GPL-2.0)."],
    [projectLicense |-> "MIT", dependencyLicense |-> "GPL-3.0", linkingModel |-> "static",
     distributionModel |-> "open-source", compatible |-> TRUE, severity |-> "MEDIUM",
     id |-> "undefined",
     reason |-> "When distributing as open-source, MIT code can be incorporated into GPL-3.0 (but entire work becomes GPL-3.0)."],
    [projectLicense |-> "Apache-2.0", dependencyLicense |-> "GPL-3.0", linkingModel |-> "static",
     distributionModel |-> "open-source", compatible |-> TRUE, severity |-> "MEDIUM",
     id |-> "undefined",
     reason |-> "Apache-2.0 can be incorporated into GPL-3.0 open-source projects."],
    [projectLicense |-> "BSD-3-Clause", dependencyLicense |-> "GPL-3.0", linkingModel |-> "static",
     distributionModel |-> "open-source", compatible |-> TRUE, severity |-> "MEDIUM",
     id |-> "undefined",
     reason |-> "BSD-3-Clause can be incorporated into GPL-3.0 open-source projects."],
    [projectLicense |-> "MIT", dependencyLicense |-> "GPL-3.0", linkingModel |-> "static",
     distributionModel |-> "saas", compatible |-> TRUE, severity |-> "LOW",
     id |-> "undefined",
     reason |-> "GPL-3.0 does not require source disclosure for SaaS (no distribution occurs). Only AGPL has SaaS requirements."],
    [projectLicense |-> "Apache-2.0", dependencyLicense |-> "GPL-3.0", linkingModel |-> "static",
     distributionModel |-> "saas", compatible |-> TRUE, severity |-> "LOW",
     id |-> "undefined",
     reason |-> "GPL-3.0 does not require source disclosure for SaaS (no distribution occurs)."],
    [projectLicense |-> "MIT", dependencyLicense |-> "LGPL-2.1", linkingModel |-> "static",
     distributionModel |-> "saas", compatible |-> TRUE, severity |-> "LOW",
     id |-> "undefined",
     reason |-> "LGPL-2.1 does not trigger for SaaS (no distribution occurs)."],
    [projectLicense |-> "Apache-2.0", dependencyLicense |-> "AGPL-3.0", linkingModel |-> "static",
     distributionModel |-> "saas", compatible |-> FALSE, severity |-> "CRITICAL",
     id |-> "undefined",
     reason |-> "AGPL-3.0 requires source disclosure for SaaS applications, even without distribution."],
    [projectLicense |-> "MIT", dependencyLicense |-> "GPL-2.0", linkingModel |-> "dynamic",
     distributionModel |-> "proprietary", compatible |-> FALSE, severity |-> "CRITICAL",
     id |-> "undefined",
     reason |-> "GPL-2.0 copyleft applies to dynamically linked works when distributed together."],
    [projectLicense |-> "MIT", dependencyLicense |-> "GPL-3.0", linkingModel |-> "dynamic",
     distributionModel |-> "proprietary", compatible |-> FALSE, severity |-> "CRITICAL",
     id |-> "undefined",
     reason |-> "GPL-3.0 copyleft applies to dynamically linked works when distributed together."],
    [projectLicense |-> "Apache-2.0", dependencyLicense |-> "LGPL-2.1", linkingModel |-> "dynamic",
     distributionModel |-> "proprietary", compatible |-> TRUE, severity |-> "LOW",
     id |-> "undefined",
     reason |-> "LGPL-2.1 explicitly allows dynamic linking with proprietary code."],
    [projectLicense |-> "Apache-2.0", dependencyLicense |-> "LGPL-3.0", linkingModel |-> "dynamic",
     distributionModel |-> "proprietary", compatible |-> TRUE, severity |-> "LOW",
     id |-> "undefined",
     reason |-> "LGPL-3.0 explicitly allows dynamic linking with proprietary code."],
    [projectLicense |-> "BSD-3-Clause", dependencyLicense |-> "LGPL-2.1", linkingModel |-> "dynamic",
     distributionModel |-> "proprietary", compatible |-> TRUE, severity |-> "LOW",
     id |-> "undefined",
     reason |-> "LGPL-2.1 allows dynamic linking with BSD-3-Clause proprietary projects."],
    [projectLicense |-> "Apache-2.0", dependencyLicense |-> "LGPL-2.1", linkingModel |-> "static",
     distributionModel |-> "proprietary", compatible |-> FALSE, severity |-> "HIGH",
     id |-> "undefined",
     reason |-> "LGPL-2.1 with static linking requires providing object files for re-linking."],
    [projectLicense |-> "Apache-2.0", dependencyLicense |-> "LGPL-3.0", linkingModel |-> "static",
     distributionModel |-> "proprietary", compatible |-> FALSE, severity |-> "HIGH",
     id |-> "undefined",
     reason |-> "LGPL-3.0 with static linking has copyleft requirements."],
    [projectLicense |-> "MIT", dependencyLicense |-> "LGPL-3.0", linkingModel |-> "static",
     distributionModel |-> "proprietary", compatible |-> FALSE, severity |-> "HIGH",
     id |-> "undefined",
     reason |-> "LGPL-3.0 with static linking requires object files and has anti-tivoization clause."],
    [projectLicense |-> "MIT", dependencyLicense |-> "CC-BY-4.0", linkingModel |-> "static",
     distributionModel |-> "proprietary", compatible |-> TRUE, severity |-> "LOW",
     id |-> "undefined",
     reason |-> "CC-BY-4.0 requires attribution only. Compatible with proprietary projects."],
    [projectLicense |-> "MIT", dependencyLicense |-> "CC-BY-SA-4.0", linkingModel |-> "static",
     distributionModel |-> "proprietary", compatible |-> FALSE, severity |-> "HIGH",
     id |-> "undefined",
     reason |-> "CC-BY-SA-4.0 (ShareAlike) requires derivative works to use the same license."],
    [projectLicense |-> "MIT", dependencyLicense |-> "CC-BY-NC-4.0", linkingModel |-> "static",
     distributionModel |-> "proprietary", compatible |-> FALSE, severity |-> "CRITICAL",
     id |-> "undefined",
     reason |-> "CC-BY-NC-4.0 prohibits commercial use."],
    [projectLicense |-> "GPL-2.0-only", dependencyLicense |-> "GPL-3.0-only", linkingModel |-> "static",
     distributionModel |-> "open-source", compatible |-> FALSE, severity |-> "CRITICAL",
     id |-> "undefined",
     reason |-> "GPL-2.0-only is incompatible with GPL-3.0-only. Cannot combine without \"or later\" clause."],
    [projectLicense |-> "GPL-2.0-or-later", dependencyLicense |-> "GPL-3.0-only", linkingModel |-> "static",
     distributionModel |-> "open-source", compatible |-> TRUE, severity |-> "LOW",
     id |-> "undefined",
     reason |-> "GPL-2.0-or-later can upgrade to GPL-3.0, making combination possible."]
  >>

\* Array.prototype.find over a table: the index of the first element among
\* those matching (a non-empty set of indices).
first(matching) == CHOOSE i \in matching : \A j \in matching : i <= j

\* findRule as a single scan that takes the first rule matching exactly or by
\* wildcard.
findRule_SinglePass(table, projectLicense, dependencyLicense, linkingModel, distributionModel) ==
  LET Wild(rule) ==
        /\ (rule.projectLicense = projectLicense \/ rule.projectLicense = "*")
        /\ (rule.dependencyLicense = dependencyLicense \/ rule.dependencyLicense = "*")
        /\ rule.linkingModel = linkingModel
        /\ rule.distributionModel = distributionModel
      wild == {i \in 1..Len(table) : Wild(table[i])}
  IN IF wild # {} THEN <<table[first(wild)]>> ELSE <<>>

\* findRule: <<rule>> when a rule matches, <<>> when none does.
findRule(table, projectLicense, dependencyLicense, linkingModel, distributionModel) ==
  LET Exact(rule) ==
        /\ rule.projectLicense = projectLicense
        /\ rule.dependencyLicense = dependencyLicense
        /\ rule.linkingModel = linkingModel
        /\ rule.distributionModel = distributionModel
      Wild(rule) ==
        /\ (rule.projectLicense = projectLicense \/ rule.projectLicense = "*")
        /\ (rule.dependencyLicense = dependencyLicense \/ rule.dependencyLicense = "*")
        /\ rule.linkingModel = linkingModel
        /\ rule.distributionModel = distributionModel
      exactMatch == {i \in 1..Len(table) : Exact(table[i])}
      wildMatch == {i \in 1..Len(table) : Wild(table[i])}
  IN IF exactMatch # {} THEN <<table[first(exactMatch)]>>
     ELSE IF wildMatch # {} THEN <<table[first(wildMatch)]>>
     ELSE <<>>

\* heuristicCheck with no severity on the default verdict.
heuristicCheck_NoSeverity(projectLicense, dependencyLicense, linkingModel, distributionModel) ==
  LET depLicense == getLicense(dependencyLicense) IN
  IF depLicense = undefined \/ dependencyLicense = "UNKNOWN" THEN
    [compatible |-> TRUE, reason |-> "", severity |-> "LOW", isHeuristic |-> TRUE,
     ruleId |-> "HEURISTIC_UNKNOWN_LICENSE"]
  ELSE IF depLicense.category = "permissive" THEN
    [compatible |-> TRUE, reason |-> "", severity |-> "LOW", isHeuristic |-> TRUE,
     ruleId |-> "HEURISTIC_PERMISSIVE"]
  ELSE IF depLicense.category = "strong-copyleft" /\ distributionModel = "proprietary" THEN
    [compatible |-> FALSE, reason |-> "", severity |-> "CRITICAL", isHeuristic |-> TRUE,
     ruleId |-> "HEURISTIC_STRONG_COPYLEFT_PROPRIETARY"]
  ELSE IF depLicense.category = "weak-copyleft" /\ linkingModel = "dynamic" THEN
    [compatible |-> TRUE, reason |-> "", severity |-> "LOW", isHeuristic |-> TRUE,
     ruleId |-> "HEURISTIC_WEAK_COPYLEFT_DYNAMIC"]
  ELSE
    [compatible |-> FALSE, reason |-> "", severity |-> "undefined", isHeuristic |-> TRUE,
     ruleId |-> "HEURISTIC_DEFAULT_CAUTIOUS"]

\* heuristicCheck grading strong copyleft under proprietary distribution HIGH.
heuristicCheck_StrongHigh(projectLicense, dependencyLicense, linkingModel, distributionModel) ==
  LET depLicense == getLicense(dependencyLicense) IN
  IF depLicense = undefined \/ dependencyLicense = "UNKNOWN" THEN
    [compatible |-> TRUE, reason |-> "", severity |-> "LOW", isHeuristic |-> TRUE,
     ruleId |-> "HEURISTIC_UNKNOWN_LICENSE"]
  ELSE IF depLicense.category = "permissive" THEN
    [compatible |-> TRUE, reason |-> "", severity |-> "LOW", isHeuristic |-> TRUE,
     ruleId |-> "HEURISTIC_PERMISSIVE"]
  ELSE IF depLicense.category = "strong-copyleft" /\ distributionModel = "proprietary" THEN
    [compatible |-> FALSE, reason |-> "", severity |-> "HIGH", isHeuristic |-> TRUE,
     ruleId |-> "HEURISTIC_STRONG_COPYLEFT_PROPRIETARY"]
  ELSE IF depLicense.category = "weak-copyleft" /\ linkingModel = "dynamic" THEN
    [compatible |-> TRUE, reason |-> "", severity |-> "LOW", isHeuristic |-> TRUE,
     ruleId |-> "HEURISTIC_WEAK_COPYLEFT_DYNAMIC"]
  ELSE
    [compatible |-> FALSE, reason |-> "", severity |-> "MEDIUM", isHeuristic |-> TRUE,
     ruleId |-> "HEURISTIC_DEFAULT_CAUTIOUS"]

\* heuristicCheck that tests the category before the unknown-license case and
\* so sends an unlisted license to the cautious default.
heuristicCheck_UnknownCautious(projectLicense, dependencyLicense, linkingModel, distributionModel) ==
  LET depLicense == getLicense(dependencyLicense) IN
  IF depLicense.category = "permissive" THEN
    [compatible |-> TRUE, reason |-> "", severity |-> "LOW", isHeuristic |-> TRUE,
     ruleId |-> "HEURISTIC_PERMISSIVE"]
  ELSE IF depLicense.category = "strong-copyleft" /\ distributionModel = "proprietary" THEN
    [compatible |-> FALSE, reason |-> "", severity |-> "CRITICAL", isHeuristic |-> TRUE,
     ruleId |-> "HEURISTIC_STRONG_COPYLEFT_PROPRIETARY"]
  ELSE IF depLicense.category = "weak-copyleft" /\ linkingModel = "dynamic" THEN
    [compatible |-> TRUE, reason |-> "", severity |-> "LOW", isHeuristic |-> TRUE,
     ruleId |-> "HEURISTIC_WEAK_COPYLEFT_DYNAMIC"]
  ELSE
    [compatible |-> FALSE, reason |-> "", severity |-> "MEDIUM", isHeuristic |-> TRUE,
     ruleId |-> "HEURISTIC_DEFAULT_CAUTIOUS"]

heuristicCheck(projectLicense, dependencyLicense, linkingModel, distributionModel) ==
  LET depLicense == getLicense(dependencyLicense) IN
  IF depLicense = undefined \/ dependencyLicense = "UNKNOWN" THEN
    [compatible |-> TRUE,
     reason |-> "Dependency license \"" \o dependencyLicense
                \o "\" is not in the database. Manual review recommended.",
     severity |-> "LOW", isHeuristic |-> TRUE, ruleId |-> "HEURISTIC_UNKNOWN_LICENSE"]
  ELSE IF depLicense.category = "permissive" THEN
    [compatible |-> TRUE,
     reason |-> dependencyLicense
                \o " is a permissive license compatible with most projects.",
     severity |-> "LOW", isHeuristic |-> TRUE, ruleId |-> "HEURISTIC_PERMISSIVE"]
  ELSE IF depLicense.category = "strong-copyleft" /\ distributionModel = "proprietary" THEN
    [compatible |-> FALSE,
     reason |-> dependencyLicense
                \o " is strong copyleft and requires derivative works to be licensed under "
                \o dependencyLicense \o ". This conflicts with proprietary distribution.",
     severity |-> "CRITICAL", isHeuristic |-> TRUE,
     ruleId |-> "HEURISTIC_STRONG_COPYLEFT_PROPRIETARY"]
  ELSE IF depLicense.category = "weak-copyleft" /\ linkingModel = "dynamic" THEN
    [compatible |-> TRUE,
     reason |-> dependencyLicense \o " allows dynamic linking with proprietary code.",
     severity |-> "LOW", isHeuristic |-> TRUE, ruleId |-> "HEURISTIC_WEAK_COPYLEFT_DYNAMIC"]
  ELSE
    [compatible |-> FALSE,
     reason |-> "Potential incompatibility between " \o projectLicense \o " and "
                \o dependencyLicense \o ". Manual review recommended.",
     severity |-> "MEDIUM", isHeuristic |-> TRUE, ruleId |-> "HEURISTIC_DEFAULT_CAUTIOUS"]

\* isCompatible that, outside strict mode, asks the heuristic before the rule
\* table.
isCompatible_HeuristicFirst(table, projectLicense, dependencyLicense, linkingModel, distributionModel, strictMode) ==
  LET normalizedProject == normalizeLicenseId(projectLicense)
      normalizedDep == normalizeLicenseId(dependencyLicense)
      rule == findRule(table, normalizedProject, normalizedDep, linkingModel,
                       distributionModel)
  IN IF ~strictMode THEN
       heuristicCheck(normalizedProject, normalizedDep, linkingModel, distributionModel)
     ELSE IF rule # <<>> THEN
       [compatible |-> rule[1].compatible, reason |-> rule[1].reason,
        severity |-> rule[1].severity, ruleId |-> rule[1].id, isHeuristic |-> FALSE]
     ELSE
       [compatible |-> FALSE, reason |-> "", severity |-> "HIGH", isHeuristic |-> FALSE,
        ruleId |-> "STRICT_MODE_VIOLATION"]

isCompatible(table, projectLicense, dependencyLicense, linkingModel, distributionModel, strictMode) ==
  LET normalizedProject == normalizeLicenseId(projectLicense)
      normalizedDep == normalizeLicenseId(dependencyLicense)
      rule == findRule(table, normalizedProject, normalizedDep, linkingModel,
                       distributionModel)
  IN IF rule # <<>> THEN
       [compatible |-> rule[1].compatible, reason |-> rule[1].reason,
        severity |-> rule[1].severity, ruleId |-> rule[1].id, isHeuristic |-> FALSE]
     ELSE IF strictMode THEN
       [compatible |-> FALSE,
        reason |-> "No explicit compatibility rule found for " \o projectLicense \o " + "
                   \o dependencyLicense \o ". Strict mode requires explicit rules.",
        severity |-> "HIGH", isHeuristic |-> FALSE, ruleId |-> "STRICT_MODE_VIOLATION"]
     ELSE heuristicCheck(normalizedProject, normalizedDep, linkingModel, distributionModel)

-----------------------------------------------------------------------------
(* LicenseFix: the offline catalog of alternatives and their ranking.      *)
(* Similarity and confidence are in hundredths, adoption in millionths and *)
(* scores in ten-millionths.                                               *)

catalog ==
  <<
    [license |-> "GPL-2.0", package |-> "mysql2", ecosystem |-> "js", weeklyDownloads |-> 50000000,
     similarityScore |-> 62, confidenceScore |-> 78, quality |-> "production"],
    [license |-> "GPL-2.0", package |-> "pg", ecosystem |-> "js", weeklyDownloads |-> 40000000,
     similarityScore |-> 55, confidenceScore |-> 75, quality |-> "production"],
    [license |-> "GPL-2.0", package |-> "better-sqlite3", ecosystem |-> "js", weeklyDownloads |-> 5000000,
     similarityScore |-> 48, confidenceScore |-> 65, quality |-> "production"],
    [license |-> "GPL-3.0", package |-> "axios", ecosystem |-> "js", weeklyDownloads |-> 200000000,
     similarityScore |-> 82, confidenceScore |-> 86, quality |-> "production"],
    [license |-> "GPL-3.0", package |-> "undici", ecosystem |-> "js", weeklyDownloads |-> 30000000,
     similarityScore |-> 74, confidenceScore |-> 78, quality |-> "production"],
    [license |-> "GPL-3.0", package |-> "node-fetch", ecosystem |-> "js", weeklyDownloads |-> 80000000,
     similarityScore |-> 70, confidenceScore |-> 72, quality |-> "stable"],
    [license |-> "AGPL-3.0", package |-> "express", ecosystem |-> "js", weeklyDownloads |-> 500000000,
     similarityScore |-> 68, confidenceScore |-> 82, quality |-> "production"],
    [license |-> "AGPL-3.0", package |-> "fastify", ecosystem |-> "js", weeklyDownloads |-> 30000000,
     similarityScore |-> 72, confidenceScore |-> 80, quality |-> "production"],
    [license |-> "AGPL-3.0", package |-> "hapi", ecosystem |-> "js", weeklyDownloads |-> 5000000,
     similarityScore |-> 55, confidenceScore |-> 70, quality |-> "stable"],
    [license |-> "LGPL-2.1", package |-> "lodash", ecosystem |-> "js", weeklyDownloads |-> 600000000,
     similarityScore |-> 77, confidenceScore |-> 82, quality |-> "production"],
    [license |-> "LGPL-2.1", package |-> "underscore", ecosystem |-> "js", weeklyDownloads |-> 20000000,
     similarityScore |-> 60, confidenceScore |-> 70, quality |-> "stable"],
    [license |-> "LGPL-3.0", package |-> "date-fns", ecosystem |-> "js", weeklyDownloads |-> 40000000,
     similarityScore |-> 70, confidenceScore |-> 80, quality |-> "production"],
    [license |-> "LGPL-3.0", package |-> "dayjs", ecosystem |-> "js", weeklyDownloads |-> 20000000,
     similarityScore |-> 68, confidenceScore |-> 75, quality |-> "production"],
    [license |-> "LGPL-3.0", package |-> "luxon", ecosystem |-> "js", weeklyDownloads |-> 6000000,
     similarityScore |-> 66, confidenceScore |-> 72, quality |-> "stable"],
    [license |-> "MPL-2.0", package |-> "typescript", ecosystem |-> "js", weeklyDownloads |-> 100000000,
     similarityScore |-> 60, confidenceScore |-> 78, quality |-> "production"],
    [license |-> "GPL-3.0", package |-> "httpx", ecosystem |-> "python", weeklyDownloads |-> 4500000,
     similarityScore |-> 70, confidenceScore |-> 76, quality |-> "production"],
    [license |-> "GPL-3.0", package |-> "requests", ecosystem |-> "python", weeklyDownloads |-> 120000000,
     similarityScore |-> 72, confidenceScore |-> 80, quality |-> "production"],
    [license |-> "AGPL-3.0", package |-> "fasthttp", ecosystem |-> "go", weeklyDownloads |-> 10000,
     similarityScore |-> 60, confidenceScore |-> 70, quality |-> "stable"],
    [license |-> "AGPL-3.0", package |-> "fiber", ecosystem |-> "go", weeklyDownloads |-> 250000,
     similarityScore |-> 66, confidenceScore |-> 74, quality |-> "stable"]
  >>

QUALITY_WEIGHT(quality) ==
  CASE quality = "production" -> 10
    [] quality = "stable" -> 8
    [] quality = "experimental" -> 5

\* clamp(value) with its bounds in the unit of value
clamp(value, min, max) == Min(max, Max(min, value))

\* clamp(Math.log10(weeklyDownloads + 1) / 8), to the nearest millionth, on
\* the download counts of the catalog.
normalizeAdoption(weeklyDownloads) ==
  CASE weeklyDownloads = 10000 -> 500005
    [] weeklyDownloads = 250000 -> 674743
    [] weeklyDownloads = 4500000 -> 831652
    [] weeklyDownloads = 5000000 -> 837371
    [] weeklyDownloads = 6000000 -> 847269
    [] weeklyDownloads = 20000000 -> 912629
    [] weeklyDownloads = 30000000 -> 934640
    [] weeklyDownloads = 40000000 -> 950258
    [] weeklyDownloads = 50000000 -> 962371
    [] weeklyDownloads = 80000000 -> 987886
    [] weeklyDownloads = 100000000 -> 1000000
    [] weeklyDownloads = 120000000 -> 1000000
    [] weeklyDownloads = 200000000 -> 1000000
    [] weeklyDownloads = 500000000 -> 1000000
    [] weeklyDownloads = 600000000 -> 1000000

\* The ranked alternative: the entry with its score.
scoreAlternative(alt) ==
  [license |-> alt.license, package |-> alt.package, ecosystem |-> alt.ecosystem,
   weeklyDownloads |-> alt.weeklyDownloads, similarityScore |-> alt.similarityScore,
   confidenceScore |-> alt.confidenceScore, quality |-> alt.quality,
   score |-> clamp(alt.similarityScore, 0, 100) * 35000
             + clamp(alt.confidenceScore, 0, 100) * 30000
             + normalizeAdoption(alt.weeklyDownloads) * 2
             + QUALITY_WEIGHT(alt.quality) * 150000]

\* Array.prototype.sort by descending score, a stable sort.
RECURSIVE insertByScore(_, _)
insertByScore(sorted, alt) ==
  IF sorted = <<>> THEN <<alt>>
  ELSE IF Head(sorted).score - alt.score < 0 THEN <<alt>> \o sorted
  ELSE <<Head(sorted)>> \o insertByScore(Tail(sorted), alt)

RECURSIVE sortByScore(_, _, _)
sortByScore(alternatives, i, sorted) ==
  IF i > Len(alternatives) THEN sorted
  ELSE sortByScore(alternatives, i + 1, insertByScore(sorted, alternatives[i]))

rankAlternatives(alternatives) ==
  sortByScore([k \in 1..Len(alternatives) |-> scoreAlternative(alternatives[k])], 1, <<>>)

\* byLicense.get(fromLicense) || [], no ecosystem given
getCandidates(fromLicense) == SelectSeq(catalog, LAMBDA entry : entry.license = fromLicense)

\* Array.prototype.slice(0, limit)
slice(a, limit) == SubSeq(a, 1, Min(limit, Len(a)))

\* The alternatives of the result of searchAlternatives; the search time it
\* also reports is not modelled.
searchAlternatives(packageName, fromLicense, limit, minConfidence) ==
  slice(rankAlternatives(SelectSeq(getCandidates(fromLicense),
                                   LAMBDA alt : alt.confidenceScore >= minConfidence)),
        limit)

-----------------------------------------------------------------------------
(* ConflictDetector.                                                       *)

\* A node's license is a string or an array of strings (DependencyNode.license).
StringLicense(s) == [kind |-> "string", str |-> s]
ArrayLicense(a) == [kind |-> "array", arr |-> a]
isArray(license) == license.kind = "array"

\* Array.prototype.join
RECURSIVE join(_, _)
join(a, sep) ==
  IF Len(a) = 0 THEN ""
  ELSE IF Len(a) = 1 THEN a[1]
  ELSE a[1] \o sep \o join(Tail(a), sep)

\* `${node.license}`
licenseText(license) == IF isArray(license) THEN join(license.arr, ",") ELSE license.str

RECURSIVE skipSpaces(_, _)
skipSpaces(s, i) ==
  IF i <= Len(s) /\ IsSpace(CharAt(s, i)) THEN skipSpaces(s, i + 1) ELSE i

\* Where a match of /\s+OR\s+/i that starts at position i ends (the position
\* after it), 0 when none starts there.
matchOr(s, i) ==
  LET j == skipSpaces(s, i) IN
  IF /\ j > i
     /\ j + 2 <= Len(s)
     /\ toLowerCase(SubSeq(s, j, j + 1)) = "or"
     /\ IsSpace(CharAt(s, j + 2))
  THEN skipSpaces(s, j + 2)
  ELSE 0

RECURSIVE splitFrom(_, _, _)
splitFrom(s, start, i) ==
  IF i > Len(s) THEN <<SubSeq(s, start, Len(s))>>
  ELSE IF matchOr(s, i) # 0
       THEN <<SubSeq(s, start, i - 1)>> \o splitFrom(s, matchOr(s, i), matchOr(s, i))
       ELSE splitFrom(s, start, i + 1)

\* license.split(/\s+OR\s+/i)
split(s) == splitFrom(s, 1, 1)

severityWeight(severity) ==
  CASE severity = "CRITICAL" -> 4
    [] severity = "HIGH" -> 3
    [] severity = "MEDIUM" -> 2
    [] severity = "LOW" -> 1

RECURSIVE collectNodes(_, _)
RECURSIVE collectChildren(_, _, _)
\* the loop of collectNodes over node.children, from child i on
collectChildren(children, i, collection) ==
  IF i > Len(children) THEN collection
  ELSE collectChildren(children, i + 1, collectNodes(children[i], collection))

collectNodes(node, collection) ==
  collectChildren(node.children, 1, Append(collection, node))

getLegalContext(license, severity) ==
  IF severity = "CRITICAL" /\ includes(license, "GPL") THEN
    license \o " Section 5 requires derivative works to be licensed under " \o license
    \o ". Linking (static or dynamic) creates a derivative work under copyright law."
  ELSE IF severity = "CRITICAL" /\ includes(license, "AGPL") THEN
    license \o " Section 13 extends copyleft requirements to software provided over a network. Even SaaS use triggers disclosure obligations."
  ELSE ""

\* The arrow U+2190 before CONFLICT is written <-.
buildContaminationPath(config, node) ==
  [i \in 1..Len(node.path) |->
     IF i = Len(node.path)
       THEN node.path[i] \o " (" \o licenseText(node.license) \o ") <- CONFLICT"
     ELSE IF i = 1 THEN node.path[i] \o " (" \o config.projectLicense \o ")"
     ELSE node.path[i]]

\* The fixes of suggestFixes for a copyleft license, given the alternatives
\* found.  The bullet U+2022 of the compatibility text is written *.
copyleftFixes(config, node, license, alternatives) ==
  (IF Len(alternatives) > 0
   THEN <<[type |-> "replace",
           description |-> "Replace with permissive alternatives: "
             \o join([k \in 1..Len(alternatives) |-> alternatives[k].package], ", "),
           action |-> [add |-> alternatives[1].package,
                       compatibility |-> "Confidence "
                         \o ToString(alternatives[1].confidenceScore) \o "% * Similarity "
                         \o ToString(alternatives[1].similarityScore) \o "%"],
           automated |-> FALSE,
           prAvailable |-> FALSE]>>
   ELSE <<>>)
  \o <<[type |-> "replace",
        description |-> "Replace with a permissive-licensed alternative",
        automated |-> FALSE,
        prAvailable |-> FALSE]>>
  \o (IF config.linkingModel = "static"
      THEN <<[type |-> "architectural",
              description |-> "Isolate GPL component into separate microservice",
              steps |-> <<"Create new service: " \o node.name \o "-service",
                          "Move " \o node.name \o " dependency to new service",
                          "License new service as " \o license,
                          "Main app communicates via REST API">>,
              automated |-> FALSE]>>
      ELSE <<>>)
  \o (IF config.distributionModel = "open-source"
      THEN <<[type |-> "relicense",
              description |-> "Change project license to " \o license,
              steps |-> <<"Update LICENSE file to " \o license,
                          "Ensure all contributors agree to license change",
                          "Update package.json license field">>,
              automated |-> FALSE]>>
      ELSE <<>>)

\* The fixes seeded whatever the license.
suggestFixes_AnyLicense(config, node, license) ==
  copyleftFixes(config, node, license, searchAlternatives(node.name, license, 2, 55))

suggestFixes(config, node, license) ==
  IF includes(license, "GPL") \/ includes(license, "AGPL")
  THEN copyleftFixes(config, node, license, searchAlternatives(node.name, license, 2, 55))
  ELSE <<>>

createConflict(config, node, reason, severity, triggeredRule) ==
  LET license == IF isArray(node.license) THEN node.license.arr[1] ELSE node.license.str IN
  [severity |-> severity,
   dependency |-> [name |-> node.name, version |-> node.version, license |-> license,
                   path |-> node.path],
   reason |-> reason,
   legalContext |-> getLegalContext(license, severity),
   contaminationPath |-> buildContaminationPath(config, node),
   fixes |-> suggestFixes(config, node, license),
   triggeredRule |-> triggeredRule]

\* The alternatives checkNode iterates over.
licensesOf(node) ==
  IF isArray(node.license) THEN node.license.arr ELSE split(node.license.str)

\* The verdict of isCompatible for each alternative.
results(table, config, alternatives) ==
  [i \in 1..Len(alternatives) |->
     isCompatible(table, config.projectLicense, trim(alternatives[i]), config.linkingModel,
                  config.distributionModel, config.strictMode)]

\* checkNode's loop deciding on the first alternative alone.
checkLicenses_FirstOnly(verdicts, i, bestResult) ==
  IF Len(verdicts) = 0 THEN bestResult
  ELSE IF verdicts[1].compatible THEN <<>>
  ELSE <<verdicts[1]>>

\* The loop of checkNode over the alternatives, from alternative i on, with
\* the worst result so far (<<>> for null).  Returns <<>> when an alternative
\* is compatible, otherwise bestResult.
RECURSIVE checkLicenses(_, _, _)
checkLicenses(verdicts, i, bestResult) ==
  IF i > Len(verdicts) THEN bestResult
  ELSE IF verdicts[i].compatible THEN <<>>
  ELSE IF \/ bestResult = <<>>
          \/ severityWeight(verdicts[i].severity) > severityWeight(bestResult[1].severity)
       THEN checkLicenses(verdicts, i + 1, <<verdicts[i]>>)
       ELSE checkLicenses(verdicts, i + 1, bestResult)

\* The end of checkNode: the conflict of bestResult, or <<>> for null.
conflictOf(config, node, bestResult) ==
  IF bestResult # <<>> /\ ~bestResult[1].compatible
  THEN <<createConflict(config, node, bestResult[1].reason, bestResult[1].severity,
                        [id |-> IF bestResult[1].ruleId \in {"undefined", ""}
                                THEN "UNKNOWN" ELSE bestResult[1].ruleId,
                         isHeuristic |-> bestResult[1].isHeuristic])>>
  ELSE <<>>

\* checkNode: <<conflict>>, or <<>> for null.
checkNode(table, config, node) ==
  conflictOf(config, node,
             checkLicenses(results(table, config, licensesOf(node)), 1, <<>>))

RECURSIVE calculateRiskScoreFrom(_, _, _)
calculateRiskScoreFrom(conflicts, i, score) ==
  IF i > Len(conflicts) THEN score
  ELSE calculateRiskScoreFrom(conflicts, i + 1,
         CASE conflicts[i].severity = "CRITICAL" -> score - 30
           [] conflicts[i].severity = "HIGH" -> score - 15
           [] conflicts[i].severity = "MEDIUM" -> score - 5
           [] conflicts[i].severity = "LOW" -> score - 2
           [] OTHER -> score)


\* calculateRiskScore without the final clamp.
calculateRiskScore_NoClamp(conflicts, totalDeps) ==
  IF totalDeps = 0 THEN 100
  ELSE calculateRiskScoreFrom(conflicts, 1, 100)

calculateRiskScore(conflicts, totalDeps) ==
  IF totalDeps = 0 THEN 100
  ELSE Max(0, Min(100, calculateRiskScoreFrom(conflicts, 1, 100)))

RECURSIVE checkNodes(_, _, _, _, _)
RECURSIVE checkNodes_NoDevSkip(_, _, _, _, _)
\* scan's loop checking dev-only nodes like the others.
checkNodes_NoDevSkip(table, config, allNodes, i, conflicts) ==
  IF i > Len(allNodes) THEN conflicts
  ELSE IF allNodes[i].depth = 0
       THEN checkNodes_NoDevSkip(table, config, allNodes, i + 1, conflicts)
  ELSE checkNodes_NoDevSkip(table, config, allNodes, i + 1,
                            conflicts \o checkNode(table, config, allNodes[i]))

\* The loop of scan over allNodes, from node i on.
checkNodes(table, config, allNodes, i, conflicts) ==
  IF i > Len(allNodes) THEN conflicts
  ELSE IF allNodes[i].depth = 0 THEN checkNodes(table, config, allNodes, i + 1, conflicts)
  ELSE IF allNodes[i].dev THEN checkNodes(table, config, allNodes, i + 1, conflicts)
  ELSE checkNodes(table, config, allNodes, i + 1,
                  conflicts \o checkNode(table, config, allNodes[i]))

\* conflicts.filter((c) => c.severity === severity).length
countSeverity(conflicts, severity) ==
  Cardinality({i \in 1..Len(conflicts) : conflicts[i].severity = severity})

\* The result scan returns; scanId and timestamp are a fresh uuid and the
\* clock, and so is each conflict's id.
scanResult(config, totalNodes, conflicts) ==
  [projectLicense |-> config.projectLicense,
   riskScore |-> calculateRiskScore(conflicts, totalNodes),
   summary |-> [totalDependencies |-> totalNodes - 1,
                conflicts |-> Len(conflicts),
                critical |-> countSeverity(conflicts, "CRITICAL"),
                high |-> countSeverity(conflicts, "HIGH"),
                medium |-> countSeverity(conflicts, "MEDIUM"),
                low |-> countSeverity(conflicts, "LOW")],
   conflicts |-> conflicts]

scan(table, config, root) ==
  scanResult(config, Len(collectNodes(root, <<>>)),
             checkNodes(table, config, collectNodes(root, <<>>), 1, <<>>))

-----------------------------------------------------------------------------
(* DynamicRiskEngine.                                                      *)

\* An absent projectLicense (ProjectContext.projectLicense is optional).
absent == "<absent>"

isStrongCopyleft(license) ==
  IF includes(license, "LGPL") THEN FALSE
  ELSE \E l \in {"AGPL", "GPL-3.0", "GPL-2.0", "GPL"} : includes(license, l)

isWeakCopyleft(license) == \E l \in {"LGPL", "MPL", "EPL"} : includes(license, l)

isPermissive(license) ==
  \E l \in {"MIT", "Apache", "BSD", "ISC", "Unlicense", "CC0"} : includes(license, l)

\* Whether s continues at position i with sub, letter case ignored.
matchesAt(s, i, sub) ==
  /\ i + Len(sub) - 1 <= Len(s)
  /\ toLowerCase(SubSeq(s, i, i + Len(sub) - 1)) = sub

\* license.replace(/-only|-or-later/gi, ''), from position i on
RECURSIVE removeSuffixes(_, _)
removeSuffixes(s, i) ==
  IF i > Len(s) THEN ""
  ELSE IF matchesAt(s, i, "-only") THEN removeSuffixes(s, i + 5)
  ELSE IF matchesAt(s, i, "-or-later") THEN removeSuffixes(s, i + 9)
  ELSE CharAt(s, i) \o removeSuffixes(s, i + 1)

normalizeLicense(license) == trim(removeSuffixes(license, 1))

isGPLCompatible(depLicense, projectLicense) ==
  LET dep == normalizeLicense(depLicense)
      proj == normalizeLicense(projectLicense)
  IN IF includes(proj, "GPL-3.0")
       THEN includes(dep, "GPL-3.0") \/ includes(dep, "AGPL-3.0") \/ includes(dep, "LGPL-3.0")
     ELSE IF includes(proj, "GPL-2.0")
       THEN includes(dep, "GPL-2.0") \/ includes(dep, "LGPL-2.1")
     ELSE IF includes(proj, "AGPL")
       THEN includes(dep, "GPL") \/ includes(dep, "AGPL")
     ELSE FALSE

\* proprietarySeverity with the file-scoped row after the weak-copyleft rows.
proprietarySeverity_WeakFirst(depLicense, linkingModel, projectLicense) ==
  IF isStrongCopyleft(depLicense) THEN
    [level |-> "critical",
     reason |-> IF includes(depLicense, "AGPL") THEN "network copyleft risk"
                ELSE "Strong copyleft license incompatible with proprietary distribution",
     obligation |-> "Requires making your entire codebase open-source under the same license",
     contextualExplanation |-> depLicense \o " requires that any software linking to it must also be " \o depLicense
       \o ". This conflicts with your proprietary intent.",
     appliesWhen |-> <<"static linking", "dynamic linking", "modification of the dependency">>,
     intentImpact |-> "Because your project is proprietary, this dependency creates a legal incompatibility."]
  ELSE IF isWeakCopyleft(depLicense) /\ linkingModel = "static" THEN
    [level |-> "high",
     reason |-> "Weak copyleft with static linking creates redistribution obligations",
     obligation |-> "Requires providing object files or source code for relinking",
     contextualExplanation |-> depLicense \o " allows proprietary use but requires that users can relink with modified versions. Static linking makes this impractical.",
     appliesWhen |-> <<"static linking">>,
     intentImpact |-> "Your proprietary project can use this, but static linking creates practical compliance challenges."]
  ELSE IF isWeakCopyleft(depLicense) /\ linkingModel \in {"dynamic", "runtime"} THEN
    [level |-> "medium",
     reason |-> "Weak copyleft with dynamic linking is compatible but has obligations",
     obligation |-> "Must allow users to replace the library with modified versions",
     contextualExplanation |-> depLicense \o " allows proprietary use when dynamically linked. You must ensure users can swap the library.",
     appliesWhen |-> <<"dynamic linking">>,
     intentImpact |-> "Compatible with your proprietary intent, but has specific distribution requirements."]
  ELSE IF includes(depLicense, "MPL") THEN
    [level |-> "medium",
     reason |-> "File-level copyleft requires source disclosure for modified files only",
     obligation |-> "modifications to MPL files must be disclosed; your code remains proprietary",
     contextualExplanation |-> depLicense \o " is file-scoped copyleft. Only modified MPL files need to be open-sourced.",
     appliesWhen |-> <<"if you modify the dependency">>,
     intentImpact |-> "Compatible with proprietary projects as long as you don't modify the library."]
  ELSE IF isPermissive(depLicense) THEN
    [level |-> "safe",
     reason |-> "Permissive license fully compatible with proprietary use",
     obligation |-> "Include copyright notice and license text in distributions",
     contextualExplanation |-> depLicense \o " allows unrestricted commercial and proprietary use.",
     appliesWhen |-> <<"always">>,
     intentImpact |-> "No restrictions on your proprietary intent."]
  ELSE
    [level |-> "medium",
     reason |-> "unknown license; manual review recommended",
     obligation |-> "Review license terms manually",
     contextualExplanation |-> depLicense \o " is not in our database. Check if it allows proprietary use.",
     appliesWhen |-> <<"unknown">>,
     intentImpact |-> "Cannot automatically assess compatibility."]

proprietarySeverity(depLicense, linkingModel, projectLicense) ==
  IF isStrongCopyleft(depLicense) THEN
    [level |-> "critical",
     reason |-> IF includes(depLicense, "AGPL") THEN "network copyleft risk"
                ELSE "Strong copyleft license incompatible with proprietary distribution",
     obligation |-> "Requires making your entire codebase open-source under the same license",
     contextualExplanation |-> depLicense \o " requires that any software linking to it must also be " \o depLicense
       \o ". This conflicts with your proprietary intent.",
     appliesWhen |-> <<"static linking", "dynamic linking", "modification of the dependency">>,
     intentImpact |-> "Because your project is proprietary, this dependency creates a legal incompatibility."]
  ELSE IF includes(depLicense, "MPL") THEN
    [level |-> "medium",
     reason |-> "File-level copyleft requires source disclosure for modified files only",
     obligation |-> "modifications to MPL files must be disclosed; your code remains proprietary",
     contextualExplanation |-> depLicense \o " is file-scoped copyleft. Only modified MPL files need to be open-sourced.",
     appliesWhen |-> <<"if you modify the dependency">>,
     intentImpact |-> "Compatible with proprietary projects as long as you don't modify the library."]
  ELSE IF isWeakCopyleft(depLicense) /\ linkingModel = "static" THEN
    [level |-> "high",
     reason |-> "Weak copyleft with static linking creates redistribution obligations",
     obligation |-> "Requires providing object files or source code for relinking",
     contextualExplanation |-> depLicense \o " allows proprietary use but requires that users can relink with modified versions. Static linking makes this impractical.",
     appliesWhen |-> <<"static linking">>,
     intentImpact |-> "Your proprietary project can use this, but static linking creates practical compliance challenges."]
  ELSE IF isWeakCopyleft(depLicense) /\ linkingModel \in {"dynamic", "runtime"} THEN
    [level |-> "medium",
     reason |-> "Weak copyleft with dynamic linking is compatible but has obligations",
     obligation |-> "Must allow users to replace the library with modified versions",
     contextualExplanation |-> depLicense \o " allows proprietary use when dynamically linked. You must ensure users can swap the library.",
     appliesWhen |-> <<"dynamic linking">>,
     intentImpact |-> "Compatible with your proprietary intent, but has specific distribution requirements."]
  ELSE IF isPermissive(depLicense) THEN
    [level |-> "safe",
     reason |-> "Permissive license fully compatible with proprietary use",
     obligation |-> "Include copyright notice and license text in distributions",
     contextualExplanation |-> depLicense \o " allows unrestricted commercial and proprietary use.",
     appliesWhen |-> <<"always">>,
     intentImpact |-> "No restrictions on your proprietary intent."]
  ELSE
    [level |-> "medium",
     reason |-> "unknown license; manual review recommended",
     obligation |-> "Review license terms manually",
     contextualExplanation |-> depLicense \o " is not in our database. Check if it allows proprietary use.",
     appliesWhen |-> <<"unknown">>,
     intentImpact |-> "Cannot automatically assess compatibility."]

\* openSourceSeverity with the permissive and family rows before the
\* Apache-2.0 row.
openSourceSeverity_PermissiveFirst(depLicense, projectLicense) ==
  IF projectLicense \in {absent, ""} THEN
    [level |-> "low",
     reason |-> "No project license declared yet",
     obligation |-> "Declare a project license to assess compatibility",
     contextualExplanation |-> "Without knowing your project license, we cannot determine if there are conflicts.",
     appliesWhen |-> <<"no project license">>,
     intentImpact |-> "Add a LICENSE file to enable accurate analysis."]
  ELSE IF normalizeLicense(depLicense) = normalizeLicense(projectLicense) THEN
    [level |-> "safe",
     reason |-> "same license compatibility",
     obligation |-> "Continue using the same license for your project",
     contextualExplanation |-> "Both your project and this dependency use " \o projectLicense \o ".",
     appliesWhen |-> <<"always">>,
     intentImpact |-> "No conflict. This is the intended use case for copyleft licenses."]
  ELSE IF isPermissive(depLicense) THEN
    [level |-> "safe",
     reason |-> "Permissive license compatible with all open-source licenses",
     obligation |-> "Include attribution in your project",
     contextualExplanation |-> depLicense \o " allows use in any open-source project.",
     appliesWhen |-> <<"always">>,
     intentImpact |-> "No restrictions."]
  ELSE IF isGPLCompatible(depLicense, projectLicense) THEN
    [level |-> "safe",
     reason |-> "Dependency license is compatible with your project license",
     obligation |-> "Continue distributing under your project license",
     contextualExplanation |-> depLicense \o " is compatible with " \o projectLicense \o ".",
     appliesWhen |-> <<"always">>,
     intentImpact |-> "No restrictions for open-source projects."]
  ELSE IF includes(projectLicense, "GPL") /\ includes(depLicense, "Apache-2.0") THEN
    [level |-> "high",
     reason |-> "incompatible patent clause between GPL and Apache-2.0",
     obligation |-> "Avoid mixing GPL project with Apache-2.0 dependency unless clarified by legal review",
     contextualExplanation |-> "Apache-2.0 patent license terms conflict with GPL reciprocity expectations.",
     appliesWhen |-> <<"distribution">>,
     intentImpact |-> "May require replacing the dependency or changing license."]
  ELSE IF isStrongCopyleft(depLicense) /\ ~isGPLCompatible(depLicense, projectLicense) THEN
    [level |-> "high",
     reason |-> "copyleft contamination incompatible with project license",
     obligation |-> "Must change project license to " \o depLicense \o " or remove dependency",
     contextualExplanation |-> depLicense \o " requires your entire project to be " \o depLicense
       \o ", but your project is " \o projectLicense \o ".",
     appliesWhen |-> <<"distribution">>,
     intentImpact |-> "Your open-source intent is fine, but these specific licenses conflict."]
  ELSE
    [level |-> "medium",
     reason |-> "License compatibility unclear",
     obligation |-> "Review licenses manually for compatibility",
     contextualExplanation |-> "Check if " \o depLicense \o " is compatible with " \o projectLicense \o ".",
     appliesWhen |-> <<"distribution">>,
     intentImpact |-> "May require legal review."]

openSourceSeverity(depLicense, projectLicense) ==
  IF projectLicense \in {absent, ""} THEN
    [level |-> "low",
     reason |-> "No project license declared yet",
     obligation |-> "Declare a project license to assess compatibility",
     contextualExplanation |-> "Without knowing your project license, we cannot determine if there are conflicts.",
     appliesWhen |-> <<"no project license">>,
     intentImpact |-> "Add a LICENSE file to enable accurate analysis."]
  ELSE IF normalizeLicense(depLicense) = normalizeLicense(projectLicense) THEN
    [level |-> "safe",
     reason |-> "same license compatibility",
     obligation |-> "Continue using the same license for your project",
     contextualExplanation |-> "Both your project and this dependency use " \o projectLicense \o ".",
     appliesWhen |-> <<"always">>,
     intentImpact |-> "No conflict. This is the intended use case for copyleft licenses."]
  ELSE IF includes(projectLicense, "GPL") /\ includes(depLicense, "Apache-2.0") THEN
    [level |-> "high",
     reason |-> "incompatible patent clause between GPL and Apache-2.0",
     obligation |-> "Avoid mixing GPL project with Apache-2.0 dependency unless clarified by legal review",
     contextualExplanation |-> "Apache-2.0 patent license terms conflict with GPL reciprocity expectations.",
     appliesWhen |-> <<"distribution">>,
     intentImpact |-> "May require replacing the dependency or changing license."]
  ELSE IF isGPLCompatible(depLicense, projectLicense) THEN
    [level |-> "safe",
     reason |-> "Dependency license is compatible with your project license",
     obligation |-> "Continue distributing under your project license",
     contextualExplanation |-> depLicense \o " is compatible with " \o projectLicense \o ".",
     appliesWhen |-> <<"always">>,
     intentImpact |-> "No restrictions for open-source projects."]
  ELSE IF isStrongCopyleft(depLicense) /\ ~isGPLCompatible(depLicense, projectLicense) THEN
    [level |-> "high",
     reason |-> "copyleft contamination incompatible with project license",
     obligation |-> "Must change project license to " \o depLicense \o " or remove dependency",
     contextualExplanation |-> depLicense \o " requires your entire project to be " \o depLicense
       \o ", but your project is " \o projectLicense \o ".",
     appliesWhen |-> <<"distribution">>,
     intentImpact |-> "Your open-source intent is fine, but these specific licenses conflict."]
  ELSE IF isPermissive(depLicense) THEN
    [level |-> "safe",
     reason |-> "Permissive license compatible with all open-source licenses",
     obligation |-> "Include attribution in your project",
     contextualExplanation |-> depLicense \o " allows use in any open-source project.",
     appliesWhen |-> <<"always">>,
     intentImpact |-> "No restrictions."]
  ELSE
    [level |-> "medium",
     reason |-> "License compatibility unclear",
     obligation |-> "Review licenses manually for compatibility",
     contextualExplanation |-> "Check if " \o depLicense \o " is compatible with " \o projectLicense \o ".",
     appliesWhen |-> <<"distribution">>,
     intentImpact |-> "May require legal review."]

\* undecidedSeverity whose last branch explains nothing.
undecidedSeverity_Bare(depLicense, linkingModel) ==
  IF isStrongCopyleft(depLicense) THEN
    [level |-> "medium",
     reason |-> "future flexibility risk from copyleft",
     obligation |-> "If you use this dependency, your project will likely need to be open-source",
     contextualExplanation |-> depLicense \o " is a strong copyleft license. It reduces future flexibility; if you later want to make your project proprietary or use a permissive license, you'll need to remove this dependency.",
     appliesWhen |-> <<"if you want proprietary or permissive licensing later">>,
     intentImpact |-> "Using this now doesn't lock you in, but be aware of the implications."]
  ELSE IF isWeakCopyleft(depLicense) THEN
    [level |-> "low",
     reason |-> "Weak copyleft has some obligations but maintains flexibility",
     obligation |-> "Allows proprietary use with dynamic linking",
     contextualExplanation |-> depLicense \o " allows most licensing options if you use dynamic linking.",
     appliesWhen |-> <<"static linking creates obligations">>,
     intentImpact |-> "Maintains flexibility for most future licensing choices."]
  ELSE IF isPermissive(depLicense) THEN
    [level |-> "safe",
     reason |-> "Permissive license maintains full licensing flexibility",
     obligation |-> "Include attribution",
     contextualExplanation |-> depLicense \o " allows any future licensing choice.",
     appliesWhen |-> <<"always">>,
     intentImpact |-> "No impact on future licensing decisions."]
  ELSE
    [level |-> "low", reason |-> "License impact on future flexibility unclear",
     obligation |-> "", contextualExplanation |-> "", appliesWhen |-> <<>>,
     intentImpact |-> ""]

undecidedSeverity(depLicense, linkingModel) ==
  IF isStrongCopyleft(depLicense) THEN
    [level |-> "medium",
     reason |-> "future flexibility risk from copyleft",
     obligation |-> "If you use this dependency, your project will likely need to be open-source",
     contextualExplanation |-> depLicense \o " is a strong copyleft license. It reduces future flexibility; if you later want to make your project proprietary or use a permissive license, you'll need to remove this dependency.",
     appliesWhen |-> <<"if you want proprietary or permissive licensing later">>,
     intentImpact |-> "Using this now doesn't lock you in, but be aware of the implications."]
  ELSE IF isWeakCopyleft(depLicense) THEN
    [level |-> "low",
     reason |-> "Weak copyleft has some obligations but maintains flexibility",
     obligation |-> "Allows proprietary use with dynamic linking",
     contextualExplanation |-> depLicense \o " allows most licensing options if you use dynamic linking.",
     appliesWhen |-> <<"static linking creates obligations">>,
     intentImpact |-> "Maintains flexibility for most future licensing choices."]
  ELSE IF isPermissive(depLicense) THEN
    [level |-> "safe",
     reason |-> "Permissive license maintains full licensing flexibility",
     obligation |-> "Include attribution",
     contextualExplanation |-> depLicense \o " allows any future licensing choice.",
     appliesWhen |-> <<"always">>,
     intentImpact |-> "No impact on future licensing decisions."]
  ELSE
    [level |-> "low",
     reason |-> "License impact on future flexibility unclear",
     obligation |-> "Review before committing to a project license",
     contextualExplanation |-> depLicense \o " should be reviewed before you choose a project license.",
     appliesWhen |-> <<"when deciding project license">>,
     intentImpact |-> "May affect licensing options."]

calculateSeverity(projectLicense, dependencyLicense, context) ==
  LET effectiveLicense == IF projectLicense # absent THEN projectLicense
                          ELSE context.projectLicense
  IN CASE context.intent = "proprietary" ->
            proprietarySeverity(dependencyLicense, context.linkingModel, effectiveLicense)
       [] context.intent = "open-source" ->
            openSourceSeverity(dependencyLicense, effectiveLicense)
       [] OTHER -> undecidedSeverity(dependencyLicense, context.linkingModel)

-----------------------------------------------------------------------------
(* FixFirstEngine.                                                         *)

replacement(depName, depLicense) ==
  [effort |-> "low",
   strategy |-> "replace",
   description |-> "Replace " \o depName \o " with "
     \o (IF includes(depLicense, "GPL") \/ includes(depLicense, "AGPL")
         THEN "a permissive alternative" ELSE "a compatible alternative"),
   implementation |-> "npm uninstall " \o depName \o "\nnpm install " \o depName
     \o "-alternative",
   tradeoffs |-> <<"Requires API migration", "May need regression tests">>,
   estimatedTime |-> "30 minutes"]

isolation(depName, depLicense) ==
  [effort |-> "medium",
   strategy |-> "isolate",
   description |-> "Isolate " \o depName \o " behind a microservice or plugin boundary ("
     \o (IF includes(depLicense, "MPL") THEN "file-level copyleft" ELSE "license boundary")
     \o ")",
   implementation |->
     "Expose the functionality via an API / plugin; run the dependency out-of-process for isolation.",
   tradeoffs |-> <<"Adds deployment complexity", "Introduces latency">>,
   estimatedTime |-> "1-2 days"]

removal(depName) ==
  [effort |-> "high",
   strategy |-> "remove",
   description |-> "Remove " \o depName \o " and replace the functionality",
   implementation |-> "Evaluate usages of " \o depName \o " and strip or replace the feature.",
   tradeoffs |-> <<"Lose functionality", "Requires refactoring">>,
   estimatedTime |-> "6 hours"]

boundaryRefactor(depName) ==
  [effort |-> "high",
   strategy |-> "boundary-refactor",
   description |-> "Refactor the boundary that pulls in " \o depName,
   implementation |->
     "Consider a plugin architecture, dynamic linking, or reimplement the needed portion.",
   tradeoffs |-> <<"Higher engineering effort", "Possible functionality loss">>,
   estimatedTime |-> "5-8 hours"]

upgrade(depName) ==
  [effort |-> "low",
   strategy |-> "upgrade",
   description |-> "Upgrade " \o depName \o " to a later compatible license (e.g., GPL-3.0)",
   implementation |-> "Upgrade to a compatible license version.",
   tradeoffs |-> <<"Requires testing">>,
   estimatedTime |-> "30 minutes"]

dualLicense(depName) ==
  [effort |-> "low",
   strategy |-> "dual-license",
   description |-> "Request or negotiate a dual-license for " \o depName,
   implementation |-> "Contact maintainers for dual-license agreement.",
   tradeoffs |-> <<"May incur cost", "Requires maintainer cooperation">>,
   estimatedTime |-> "30 minutes"]

\* const rank = { low: 1, medium: 2, high: 3 }
effortRank(effort) ==
  CASE effort = "low" -> 1
    [] effort = "medium" -> 2
    [] effort = "high" -> 3

\* Array.prototype.sort by effort rank, a stable sort: fix goes in after the
\* last element that does not rank above it.
RECURSIVE insertByEffort(_, _)
insertByEffort(sorted, fix) ==
  IF sorted = <<>> THEN <<fix>>
  ELSE IF effortRank(fix.effort) - effortRank(Head(sorted).effort) < 0 THEN <<fix>> \o sorted
  ELSE <<Head(sorted)>> \o insertByEffort(Tail(sorted), fix)

RECURSIVE sortByEffort(_, _, _)
sortByEffort(fixes, i, sorted) ==
  IF i > Len(fixes) THEN sorted
  ELSE sortByEffort(fixes, i + 1, insertByEffort(sorted, fixes[i]))

\* The fixes in the order generateFixes pushes them.
pushedFixes(depName, depLicense, projectLicense) ==
  <<replacement(depName, depLicense), isolation(depName, depLicense), removal(depName),
    boundaryRefactor(depName)>>
    \o (IF includes(depLicense, "GPL-2.0") THEN <<upgrade(depName)>> ELSE <<>>)
    \o (IF /\ includes(depLicense, "GPL")
           /\ projectLicense \notin {absent, ""}
           /\ ~includes(projectLicense, "GPL")
        THEN <<dualLicense(depName)>> ELSE <<>>)

\* generateFixes that returns the fixes as pushed.
generateFixes_Unsorted(depName, depLicense, projectLicense) ==
  pushedFixes(depName, depLicense, projectLicense)

generateFixes(depName, depLicense, projectLicense) ==
  sortByEffort(pushedFixes(depName, depLicense, projectLicense), 1, <<>>)

-----------------------------------------------------------------------------
(* PathVisualizer, on a tree.  A node or a path that is null is <<>>.      *)

\* ConflictPathVisualizer.identifyRule, the classifier of buildPath.
identifyRule(projectLicense, depLicense) ==
  IF includes(depLicense, "GPL") /\ ~includes(projectLicense, "GPL")
    THEN "copyleft-contamination"
  ELSE IF includes(depLicense, "AGPL") THEN "network-copyleft"
  ELSE IF includes(depLicense, "LGPL") THEN "weak-copyleft-static-link"
  ELSE "license-mismatch"

\* Array.isArray(n.license) ? n.license[0] : n.license; the first element of
\* an empty array is undefined.
firstLicense(license) ==
  IF ~isArray(license) THEN license.str
  ELSE IF Len(license.arr) = 0 THEN "undefined"
  ELSE license.arr[1]

RECURSIVE findNode(_, _)
RECURSIVE findNodeIn(_, _, _)
RECURSIVE findNodeNext(_, _, _, _)

\* <<node>> for the first node of that name in depth-first order.
findNode(root, targetName) ==
  IF root.name = targetName THEN <<root>> ELSE findNodeIn(root, targetName, 1)

\* The loop of findNode over the children of root, from child i on.
findNodeIn(root, targetName, i) ==
  IF i > Len(root.children) THEN <<>>
  ELSE findNodeNext(root, targetName, i, findNode(root.children[i], targetName))

findNodeNext(root, targetName, i, found) ==
  IF found # <<>> THEN found ELSE findNodeIn(root, targetName, i + 1)

RECURSIVE findPathRecursive(_, _, _)
RECURSIVE findPathIn(_, _, _, _)
RECURSIVE findPathNext(_, _, _, _)

\* The path found and the visited names as the call leaves them.
findPathRecursive(current, target, visited) ==
  IF current.name = target.name THEN [path |-> <<current>>, visited |-> visited]
  ELSE IF \E k \in 1..Len(visited) : visited[k] = current.name
    THEN [path |-> <<>>, visited |-> visited]
  ELSE findPathIn(current, target, Append(visited, current.name), 1)

\* The loop of findPathRecursive over the children of current.
findPathIn(current, target, visited, i) ==
  IF i > Len(current.children) THEN [path |-> <<>>, visited |-> visited]
  ELSE findPathNext(current, target, i,
                    findPathRecursive(current.children[i], target, visited))

findPathNext(current, target, i, found) ==
  IF found.path # <<>>
  THEN [path |-> <<current>> \o found.path, visited |-> found.visited]
  ELSE findPathIn(current, target, found.visited, i + 1)

\* path || [root, target]
orDirect(path, root, target) == IF path # <<>> THEN path ELSE <<root, target>>

tracePath(root, target) ==
  orDirect(findPathRecursive(root, target, <<>>).path, root, target)

inferRule(projectLicense, depLicense) ==
  IF includes(depLicense, "GPL") /\ ~includes(projectLicense, "GPL")
    THEN "copyleft-contamination"
  ELSE IF includes(depLicense, "AGPL") THEN "network-copyleft"
  ELSE IF includes(depLicense, "LGPL") THEN "weak-copyleft"
  ELSE IF includes(depLicense, "MPL") THEN "file-level-copyleft"
  ELSE "license-incompatibility"

explainObligation(depLicense, projectLicense) ==
  IF includes(depLicense, "GPL") \/ includes(depLicense, "AGPL") THEN
    depLicense \o " requires that derivative works be distributed under the same license, which creates an incompatibility with "
      \o projectLicense \o "."
  ELSE IF includes(depLicense, "LGPL") THEN
    depLicense \o " requires allowing users to relink with modified versions, which may conflict with "
      \o projectLicense \o " distribution terms."
  ELSE IF includes(depLicense, "MPL") THEN
    depLicense \o " requires disclosing source code for any modified files, which may affect "
      \o projectLicense \o " compliance."
  ELSE
    depLicense \o " has licensing requirements that may be incompatible with "
      \o projectLicense \o "."

\* The arrow U+2192 between the links of the chain is written ->.
buildExplanation(pathNames, pathLicenses, projectLicense, conflictLicense) ==
  "Your project uses " \o projectLicense \o ", but includes " \o pathNames[Len(pathNames)]
    \o " licensed under " \o conflictLicense \o ". The dependency chain is: "
    \o join([i \in 1..Len(pathNames) |-> pathNames[i] \o " (" \o pathLicenses[i] \o ")"],
            " -> ")
    \o ". " \o explainObligation(conflictLicense, projectLicense)

extractObligations(license) ==
  IF includes(license, "GPL") \/ includes(license, "AGPL") THEN
    <<"Distribute derivative works under the same license",
      "Provide source code to users",
      "Preserve copyright and license notices">>
      \o (IF includes(license, "AGPL")
          THEN <<"Provide source code to network users (AGPL only)">> ELSE <<>>)
  ELSE IF includes(license, "LGPL") THEN
    <<"Allow relinking with modified library versions",
      "Disclose modifications to the library itself">>
  ELSE IF includes(license, "MPL") THEN
    <<"Disclose source code of modified files only",
      "Preserve license notices in modified files">>
  ELSE IF \E l \in {"MIT", "Apache", "BSD", "ISC"} : includes(license, l) THEN
    <<"Include copyright and license notices">>
      \o (IF includes(license, "Apache") THEN <<"State significant changes made">> ELSE <<>>)
  ELSE <<>>

\* The tag inferred from the licenses whatever rule the conflict carries.
ruleOr_Inferred(conflict, fallback) == fallback

\* conflict.triggeredRule?.id || fallback
ruleOr(conflict, fallback) ==
  IF conflict.triggeredRule.id # "" THEN conflict.triggeredRule.id ELSE fallback

\* The conflict path along the nodes of path.
conflictPathAlong(path, conflict, projectLicense) ==
  [path |-> [k \in 1..Len(path) |-> path[k].name],
   licenses |-> [k \in 1..Len(path) |-> firstLicense(path[k].license)],
   ruleTriggered |-> ruleOr(conflict, inferRule(projectLicense, conflict.dependency.license)),
   humanExplanation |->
     buildExplanation([k \in 1..Len(path) |-> path[k].name],
                      [k \in 1..Len(path) |-> firstLicense(path[k].license)],
                      projectLicense, conflict.dependency.license),
   obligationsInConflict |-> extractObligations(conflict.dependency.license)]

\* buildConflictPath once findNode has answered.
conflictPathTo(root, targetNode, conflict, projectLicense) ==
  IF targetNode = <<>>
  THEN [path |-> <<root.name, conflict.dependency.name>>,
        licenses |-> <<projectLicense, conflict.dependency.license>>,
        ruleTriggered |-> ruleOr(conflict, "unknown"),
        humanExplanation |-> conflict.reason,
        obligationsInConflict |-> extractObligations(conflict.dependency.license)]
  ELSE conflictPathAlong(tracePath(root, targetNode[1]), conflict, projectLicense)

buildConflictPath(root, conflict, projectLicense) ==
  conflictPathTo(root, findNode(root, conflict.dependency.name), conflict, projectLicense)

-----------------------------------------------------------------------------
(* ILIScanner.                                                             *)

severityWeights(level) ==
  CASE level = "critical" -> 10
    [] level = "high" -> 5
    [] level = "medium" -> 2
    [] level = "low" -> 1
    [] level = "safe" -> 0

\* conflicts.reduce((sum, c) => sum + severityWeights[c.dynamicSeverity.level], 0)
RECURSIVE totalWeight(_)
totalWeight(conflicts) ==
  IF conflicts = <<>> THEN 0
  ELSE severityWeights(conflicts[1].dynamicSeverity.level) + totalWeight(Tail(conflicts))

\* Math.round((a / b) * 10) for a >= 0, b > 0: the nearest integer, a half
\* rounded up.
roundTimesTen(a, b) == (20 * a + b) \div (2 * b)

\* calculateDynamicRisk over the total weight instead of the mean.
calculateDynamicRisk_Total(conflicts) ==
  IF Len(conflicts) = 0 THEN 0
  ELSE Min(100, 10 * totalWeight(conflicts))

calculateDynamicRisk(conflicts) ==
  IF Len(conflicts) = 0 THEN 0
  ELSE Min(100, roundTimesTen(totalWeight(conflicts), Len(conflicts)))

\* conflicts.filter((c) => c.dynamicSeverity.level === level).length
countLevel(conflicts, level) ==
  Cardinality({i \in 1..Len(conflicts) : conflicts[i].dynamicSeverity.level = level})

\* projectContext.projectLicense || 'UNKNOWN'
orUnknown(projectLicense) ==
  IF projectLicense \in {absent, ""} THEN "UNKNOWN" ELSE projectLicense

detectorConfig(projectContext) ==
  [projectLicense |-> orUnknown(projectContext.projectLicense),
   linkingModel |-> projectContext.linkingModel,
   distributionModel |-> projectContext.distributionModel,
   strictMode |-> FALSE]

\* ...basePath with obligations: basePath.obligationsInConflict
withObligations(basePath) ==
  [path |-> basePath.path,
   licenses |-> basePath.licenses,
   ruleTriggered |-> basePath.ruleTriggered,
   humanExplanation |-> basePath.humanExplanation,
   obligationsInConflict |-> basePath.obligationsInConflict,
   obligations |-> basePath.obligationsInConflict]

\* The conflict with its dynamic severity, fix suggestions and conflict path.
enhance(root, projectContext, conflict) ==
  [severity |-> conflict.severity,
   dependency |-> conflict.dependency,
   reason |-> conflict.reason,
   legalContext |-> conflict.legalContext,
   contaminationPath |-> conflict.contaminationPath,
   fixes |-> conflict.fixes,
   triggeredRule |-> conflict.triggeredRule,
   dynamicSeverity |-> calculateSeverity(projectContext.projectLicense,
                                         conflict.dependency.license, projectContext),
   fixSuggestions |-> generateFixes(conflict.dependency.name, conflict.dependency.license,
                                    projectContext.projectLicense),
   conflictPath |-> withObligations(
     buildConflictPath(root, conflict, orUnknown(projectContext.projectLicense)))]

\* The loop of ILIScanner.scan over baseScan.conflicts.
enhancedConflictsOf(root, projectContext, conflicts) ==
  [i \in 1..Len(conflicts) |-> enhance(root, projectContext, conflicts[i])]

\* The result ILIScanner.scan returns, but for the ids and the timestamp:
\* the risk score, the summary and the enhanced conflicts.
iliScanResult(projectContext, totalDependencies, enhancedConflicts) ==
  [projectLicense |-> orUnknown(projectContext.projectLicense),
   riskScore |-> calculateDynamicRisk(enhancedConflicts),
   summary |-> [totalDependencies |-> totalDependencies,
                conflicts |-> Len(enhancedConflicts),
                critical |-> countLevel(enhancedConflicts, "critical"),
                high |-> countLevel(enhancedConflicts, "high"),
                medium |-> countLevel(enhancedConflicts, "medium"),
                low |-> countLevel(enhancedConflicts, "low")],
   projectContext |-> projectContext,
   conflicts |-> enhancedConflicts]

\* ILIScanner.scan from the detector's result on.
enhanceScan(root, projectContext, baseScan) ==
  iliScanResult(projectContext, baseScan.summary.totalDependencies,
                enhancedConflictsOf(root, projectContext, baseScan.conflicts))

\* ILIScanner.scan with a provided context.
iliScan(table, root, projectContext) ==
  enhanceScan(root, projectContext, scan(table, detectorConfig(projectContext), root))

-----------------------------------------------------------------------------
(* CausalImpactEngine.                                                     *)

SEVERITY_WEIGHT(severity) ==
  CASE severity = "CRITICAL" -> 30
    [] severity = "HIGH" -> 15
    [] severity = "MEDIUM" -> 5
    [] severity = "LOW" -> 2

\* String.prototype.indexOf, counted from 0; -1 when sub does not occur.
indexOf(s, sub) ==
  IF includes(s, sub)
  THEN (CHOOSE i \in 1..Len(s) :
          /\ SubSeq(s, i, i + Len(sub) - 1) = sub
          /\ \A j \in 1..(i - 1) : SubSeq(s, j, j + Len(sub) - 1) # sub) - 1
  ELSE -1

\* String.prototype.replace(sub, ''): the first occurrence removed.
removeFirst(s, sub) ==
  IF indexOf(s, sub) = -1 THEN s
  ELSE SubSeq(s, 1, indexOf(s, sub)) \o SubSeq(s, indexOf(s, sub) + Len(sub) + 1, Len(s))

\* The part of a trimmed segment before its first parenthesis.
beforeParen(trimmed) ==
  IF indexOf(trimmed, "(") > 0 THEN trim(SubSeq(trimmed, 1, indexOf(trimmed, "(")))
  ELSE trimmed

stripLicense(segment) == beforeParen(trim(removeFirst(segment, " <- CONFLICT")))

extractPathNodes(conflict) ==
  IF Len(conflict.contaminationPath) > 0
  THEN SelectSeq([i \in 1..(Len(conflict.contaminationPath) - 1) |->
                    stripLicense(conflict.contaminationPath[i + 1])],
                 LAMBDA node : node # "")
  ELSE <<conflict.dependency.name>>

\* byPackage is a Map, modelled as the sequence of its entries in insertion
\* order.
has(byPackage, pkg) == \E k \in 1..Len(byPackage) : byPackage[k].pkg = pkg

\* byPackage.set(node, {weight: 0, conflicts: 0, severity: {...}}) if absent
withEntry(byPackage, node) ==
  IF has(byPackage, node) THEN byPackage
  ELSE Append(byPackage,
              [pkg |-> node, weight |-> 0, conflicts |-> 0,
               severity |-> [CRITICAL |-> 0, HIGH |-> 0, MEDIUM |-> 0, LOW |-> 0]])

\* entry.weight += weight; entry.conflicts += 1; entry.severity[severity] += 1
credited(byPackage, node, severity) ==
  [k \in 1..Len(byPackage) |->
     IF byPackage[k].pkg = node
     THEN [pkg |-> node,
           weight |-> byPackage[k].weight + SEVERITY_WEIGHT(severity),
           conflicts |-> byPackage[k].conflicts + 1,
           severity |-> [byPackage[k].severity EXCEPT ![severity] = @ + 1]]
     ELSE byPackage[k]]

\* The loop of analyze over the path nodes of one conflict, from node i on.
RECURSIVE creditNodes(_, _, _, _)
creditNodes(byPackage, pathNodes, i, severity) ==
  IF i > Len(pathNodes) THEN byPackage
  ELSE creditNodes(credited(withEntry(byPackage, pathNodes[i]), pathNodes[i], severity),
                   pathNodes, i + 1, severity)

\* The loop of analyze over the conflicts, from conflict i on.
RECURSIVE creditConflicts(_, _, _)
creditConflicts(byPackage, conflicts, i) ==
  IF i > Len(conflicts) THEN byPackage
  ELSE creditConflicts(creditNodes(byPackage, extractPathNodes(conflicts[i]), 1,
                                   conflicts[i].severity),
                       conflicts, i + 1)

\* The contribution left uncapped.
contributionPct_NoClamp(weight, baselinePenalty) ==
  IF baselinePenalty = 0 THEN 0
  ELSE (20000 * weight + baselinePenalty) \div (2 * baselinePenalty)

\* Number(Math.min(100, (weight / baselinePenalty) * 100).toFixed(2)), in
\* hundredths of a percent: the nearest hundredth, a half rounded up; 0 when
\* the penalty is 0.
contributionPct(weight, baselinePenalty) ==
  IF baselinePenalty = 0 THEN 0
  ELSE Min(10000, (20000 * weight + baselinePenalty) \div (2 * baselinePenalty))

\* The impact of one entry of byPackage; riskContribution in hundredths of a
\* percent.
impactOf(data, baselinePenalty, currentRiskScore) ==
  [packageName |-> data.pkg,
   riskContribution |-> contributionPct(data.weight, baselinePenalty),
   conflictsRemoved |-> data.conflicts,
   severityBreakdown |-> data.severity,
   riskScoreAfterRemoval |-> Min(100, currentRiskScore + data.weight)]

\* The collation order of the characters of package names.
Collation == "-.0123456789abcdefghijklmnopqrstuvwxyz"

rank(c) ==
  IF \E k \in 1..Len(Collation) : CharAt(Collation, k) = c
  THEN CHOOSE k \in 1..Len(Collation) : CharAt(Collation, k) = c
  ELSE 0

\* a.localeCompare(b): -1, 0 or 1
RECURSIVE localeCompare(_, _)
localeCompare(a, b) ==
  IF a = "" /\ b = "" THEN 0
  ELSE IF a = "" THEN -1
  ELSE IF b = "" THEN 1
  ELSE IF rank(CharAt(a, 1)) < rank(CharAt(b, 1)) THEN -1
  ELSE IF rank(CharAt(a, 1)) > rank(CharAt(b, 1)) THEN 1
  ELSE localeCompare(SubSeq(a, 2, Len(a)), SubSeq(b, 2, Len(b)))

\* The comparator without the package names.
compareImpacts_NoName(a, b) ==
  IF b.riskContribution - a.riskContribution # 0
    THEN b.riskContribution - a.riskContribution
  ELSE b.conflictsRemoved - a.conflictsRemoved

\* The comparator of analyze's sort: negative when a goes before b.
compareImpacts(a, b) ==
  IF b.riskContribution - a.riskContribution # 0
    THEN b.riskContribution - a.riskContribution
  ELSE IF b.conflictsRemoved - a.conflictsRemoved # 0
    THEN b.conflictsRemoved - a.conflictsRemoved
  ELSE localeCompare(a.packageName, b.packageName)

\* Array.prototype.sort under compareImpacts, a stable sort: x goes in before
\* the first element it precedes.
RECURSIVE insertSorted(_, _)
insertSorted(sorted, x) ==
  IF sorted = <<>> THEN <<x>>
  ELSE IF compareImpacts(x, Head(sorted)) < 0 THEN <<x>> \o sorted
  ELSE <<Head(sorted)>> \o insertSorted(Tail(sorted), x)

RECURSIVE sortImpacts(_, _, _)
sortImpacts(impacts, i, sorted) ==
  IF i > Len(impacts) THEN sorted
  ELSE sortImpacts(impacts, i + 1, insertSorted(sorted, impacts[i]))

\* The impacts of the entries of byPackage, in insertion order.
impactsOf(byPackage, baselinePenalty, currentRiskScore) ==
  [k \in 1..Len(byPackage) |-> impactOf(byPackage[k], baselinePenalty, currentRiskScore)]

\* analyze that goes on when the penalty is zero.
analyzeFrom_NoPenaltyCheck(conflicts, currentRiskScore, baselinePenalty) ==
  IF Len(conflicts) = 0 THEN <<>>
  ELSE sortImpacts(impactsOf(creditConflicts(<<>>, conflicts, 1), baselinePenalty,
                             currentRiskScore),
                   1, <<>>)

\* analyze from the baseline penalty on.
analyzeFrom(conflicts, currentRiskScore, baselinePenalty) ==
  IF Len(conflicts) = 0 \/ baselinePenalty = 0 THEN <<>>
  ELSE sortImpacts(impactsOf(creditConflicts(<<>>, conflicts, 1), baselinePenalty,
                             currentRiskScore),
                   1, <<>>)

analyze(conflicts, currentRiskScore) ==
  analyzeFrom(conflicts, currentRiskScore, Max(0, 100 - currentRiskScore))

-----------------------------------------------------------------------------
(* Generated ids and timestamps.  The k-th uuid the process issues is       *)
(* uuidv4(k); two uuids are taken to differ within their first 8            *)
(* characters.                                                             *)

uuidv4(k) == "uuid" \o ToString(k)

\* new Date().toISOString() at clock reading now
toISOString(now) == "T+" \o ToString(now)

\* Ids that also show in the reason of the conflict.
stampConflicts_InReason(conflicts, issued) ==
  [k \in 1..Len(conflicts) |->
     [conflicts[k] EXCEPT !.reason = @ \o " [" \o uuidv4(issued + k) \o "]"]
       @@ [id |-> "conflict-" \o uuidv4(issued + k)]]

\* createConflict's ids: the k-th conflict takes the k-th uuid issued after
\* the first `issued`.
stampConflicts(conflicts, issued) ==
  [k \in 1..Len(conflicts) |->
     conflicts[k] @@ [id |-> "conflict-" \o uuidv4(issued + k)]]

\* The uuids ConflictDetector.scan draws: one for each conflict and the scanId.
uuidsOfScan(result) == Len(result.conflicts) + 1

\* ConflictDetector.scan's result with its ids and timestamp.
stampScan(result, issued, now) ==
  [result EXCEPT !.conflicts = stampConflicts(result.conflicts, issued)]
  @@ [scanId |-> uuidv4(issued + uuidsOfScan(result)), timestamp |-> toISOString(now)]

isDeterministic(env) == env

\* The uuids ILIScanner.scan draws: the detector's and, outside deterministic
\* mode, its own scanId.
uuidsOfILIScan(result, env) ==
  uuidsOfScan(result) + (IF isDeterministic(env) THEN 0 ELSE 1)

\* ILIScanner.scan's result with its stamped conflicts: conflictPaths is the
\* Map from conflict id to conflict path, as its entries in insertion order.
stampedILIScan(result, conflicts, scanId, timestamp) ==
  [result EXCEPT !.conflicts = conflicts]
  @@ [scanId |-> scanId,
      timestamp |-> timestamp,
      conflictPaths |-> [k \in 1..Len(conflicts) |->
                           [key |-> conflicts[k].id, value |-> conflicts[k].conflictPath]],
      enhancedConflicts |-> conflicts]

\* ILIScanner.scan's result with its ids and timestamp.
stampILIScan(result, issued, now, env) ==
  stampedILIScan(result, stampConflicts(result.conflicts, issued),
                 IF isDeterministic(env) THEN "deterministic-scan-id"
                 ELSE uuidv4(issued + uuidsOfScan(result) + 1),
                 IF isDeterministic(env) THEN "2000-01-01T00:00:00.000Z"
                 ELSE toISOString(now))

-----------------------------------------------------------------------------
(* Dependency trees, as LockfileParser builds them: the root at depth 0     *)
(* with path <<root name>>, a child one level below its parent with the     *)
(* parent's path extended by its name, sibling names distinct.              *)

MaxDeps == 4
MaxAlts == 2
MaxConflicts == 2

rootName == "app"

\* The dependencies of a flat tree: shipped, of a compatible license or of one
\* that conflicts at each severity.
FlatKinds ==
  [license : {StringLicense("MIT"), StringLicense("GPL-3.0"), StringLicense("LGPL-2.1"),
              StringLicense("MPL-1.1")},
   dev : {FALSE}]

\* The dependencies of a nested tree: shipped or dev-only.
NestedKinds ==
  [license : {StringLicense("GPL-3.0")}, dev : BOOLEAN]
  \cup {[license |-> StringLicense("MIT"), dev |-> FALSE]}

\* A tree of n dependencies in lockfile order: dependency i has kinds[i] and is
\* a child of dependency i-1 when nested[i], of the root otherwise.
TreeShapes ==
  UNION {[n : {n}, kinds : [1..n -> FlatKinds], nested : {[i \in 1..n |-> FALSE]}]
         \cup [n : {n}, kinds : [1..n -> NestedKinds],
                nested : {f \in [1..n -> BOOLEAN] : n >= 1 => ~f[1]}] : n \in 0..MaxDeps}

\* A dependency declared by the root is named after its rank among the root's
\* dependencies, a nested one "pkg1": a name may recur on another path.
depName(shape, i) ==
  IF shape.nested[i] THEN "pkg1"
  ELSE "pkg" \o ToString(Cardinality({j \in 1..i : ~shape.nested[j]}))

RECURSIVE buildNode(_, _, _, _)
buildNode(shape, i, depth, currentPath) ==
  [name |-> depName(shape, i),
   version |-> "1.0.0",
   license |-> shape.kinds[i].license,
   depth |-> depth,
   path |-> currentPath,
   children |-> IF i + 1 <= shape.n /\ shape.nested[i + 1]
                THEN <<buildNode(shape, i + 1, depth + 1,
                                 Append(currentPath, depName(shape, i + 1)))>>
                ELSE <<>>,
   dev |-> shape.kinds[i].dev]

RECURSIVE buildChildren(_, _)
buildChildren(shape, i) ==
  IF i > shape.n THEN <<>>
  ELSE IF shape.nested[i] THEN buildChildren(shape, i + 1)
  ELSE <<buildNode(shape, i, 1, <<rootName, depName(shape, i)>>)>>
       \o buildChildren(shape, i + 1)

parse(shape) ==
  [name |-> rootName, version |-> "1.0.0", license |-> StringLicense("MIT"), depth |-> 0,
   path |-> <<rootName>>, children |-> buildChildren(shape, 1), dev |-> FALSE]

\* The ids a dependency offers as alternatives.
AltIds == {"MIT", "GPL-3.0", "LGPL-2.1"}

AltLists == UNION {[1..n -> AltIds] : n \in 0..MaxAlts}

\* Separators that /\s+OR\s+/i matches.
OrSeparators == {" OR ", "  or\t"}

\* Alternative licenses: an array of ids, or the ids joined by an OR in either
\* letter case and under more or less white space.
AltLicenses ==
  {ArrayLicense(a) : a \in AltLists}
  \cup {StringLicense(join(a, sep)) : a \in AltLists \ {<<>>}, sep \in OrSeparators}
  \cup {StringLicense(" GPL-3.0  OR MIT "), StringLicense("GPL-3.0 ORMIT"),
        StringLicense("")}

\* A tree of one dependency that offers alternative licenses.
altTree(license) ==
  [name |-> rootName, version |-> "1.0.0", license |-> StringLicense("MIT"), depth |-> 0,
   path |-> <<rootName>>,
   children |-> <<[name |-> "dual", version |-> "2.0.0", license |-> license, depth |-> 1,
                   path |-> <<rootName, "dual">>, children |-> <<>>, dev |-> FALSE]>>,
   dev |-> FALSE]

Trees == {parse(shape) : shape \in TreeShapes} \cup {altTree(l) : l \in AltLicenses}

-----------------------------------------------------------------------------
(* The calls.                                                              *)

LinkingModels == {"static", "dynamic", "runtime", "microservice"}
DistributionModels ==
  {"proprietary", "saas", "cli", "library", "open-source", "internal-only"}
Severities == {"LOW", "MEDIUM", "HIGH", "CRITICAL"}
DeveloperIntents == {"open-source", "proprietary", "undecided"}
Levels == {"safe", "low", "medium", "high", "critical"}

\* The license strings the calls are made with: catalog ids, aliases, padded,
\* unknown and empty ids.
ProjectLicenses ==
  {"MIT", "Apache-2.0", "BSD-3-Clause", "ISC", "0BSD", "BSD-2-Clause", "Zlib",
   "GPL-2.0", "GPL-3.0", "Apache", " MIT", "UNKNOWN"}
DependencyLicenses ==
  {"MIT", "Apache-2.0", "BSD-3-Clause", "ISC", "Zlib", "GPL-2.0", "GPL-3.0",
   "AGPL-3.0", "LGPL-2.1", "LGPL-3.0", "MPL-2.0", "MPL-1.1", "EPL-2.0", "BSD",
   " GPL-3.0 ", "UNKNOWN", "", "CUSTOM-LICENSE-1.0"}

IsCompatibleArgs ==
  [projectLicense : ProjectLicenses, dependencyLicense : DependencyLicenses,
   linkingModel : LinkingModels, distributionModel : DistributionModels,
   strictMode : BOOLEAN]

\* new ConflictDetector(config).scan(root)
ProjectConfigs ==
  [projectLicense : {"MIT"}, linkingModel : {"static", "dynamic"},
   distributionModel : {"proprietary"}, strictMode : BOOLEAN]
  \cup {[projectLicense |-> "GPL-3.0", linkingModel |-> "static",
         distributionModel |-> "open-source", strictMode |-> FALSE]}

ScanArgs == [config : ProjectConfigs, root : Trees]

\* new ILIScanner(projectPath).scan(root, projectContext)
ProjectContexts ==
  [projectLicense : {"MIT", absent}, intent : DeveloperIntents,
   distributionModel : {"proprietary"}, linkingModel : {"static"}]

\* An open-source GPL-3.0 project and its flat trees of copyleft and
\* permissive dependencies.
GplContexts ==
  {[projectLicense |-> "GPL-3.0", intent |-> "open-source",
    distributionModel |-> "open-source", linkingModel |-> "static"]}

GplKinds ==
  [license : {StringLicense("AGPL-3.0"), StringLicense("LGPL-3.0"),
              StringLicense("GPL-2.0"), StringLicense("Apache-2.0")},
   dev : {FALSE}]

GplTrees ==
  UNION {{parse([n |-> n, kinds |-> k, nested |-> [i \in 1..n |-> FALSE]]) :
            k \in [1..n -> GplKinds]} : n \in 1..MaxConflicts}

ILIScanArgs ==
  [projectContext : ProjectContexts, root : Trees]
  \cup [projectContext : GplContexts, root : GplTrees]

\* The calls of calculateSeverity: every intent and one value outside the
\* type, licenses of every family with a compound, a suffixed, an unknown and
\* an empty one, and a project license given as argument, by the context, by
\* both or by neither.
SeverityIntents == DeveloperIntents \cup {"internal"}

SeverityLinkingModels == {"static", "dynamic", "runtime"}

SeverityDependencyLicenses ==
  {"GPL-3.0", "GPL-2.0", "GPL-2.0-only", "AGPL-3.0", "LGPL-3.0", "LGPL-2.1", "MPL-2.0",
   "EPL-2.0",
   "MIT", "Apache-2.0", "UNKNOWN", "MIT OR GPL-3.0", ""}

SeverityProjectLicenses ==
  {absent, "UNLICENSED", "MIT", "Apache-2.0", "GPL-3.0", "GPL-3.0-or-later", "GPL-2.0",
   "LGPL-3.0", "AGPL-3.0"}

SeverityContexts ==
  [projectLicense : {absent, "GPL-3.0"}, intent : SeverityIntents,
   distributionModel : {"proprietary"}, linkingModel : SeverityLinkingModels]

CalculateSeverityArgs ==
  [projectLicense : SeverityProjectLicenses,
   dependencyLicense : SeverityDependencyLicenses,
   context : SeverityContexts]

\* The calls of generateFixes: licenses of the GPL family in both versions,
\* suffixed, lesser and network variants, and licenses outside it; a project
\* license absent, empty, inside and outside the GPL family.
FixDependencyNames == {"old-gpl", "lib"}

FixDependencyLicenses ==
  {"GPL-2.0", "GPL-2.0-only", "GPL-3.0", "LGPL-2.0", "LGPL-2.1", "AGPL-3.0", "MPL-2.0",
   "MIT", "UNKNOWN"}

FixProjectLicenses == {absent, "", "MIT", "UNLICENSED", "GPL-3.0", "LGPL-3.0"}

GenerateFixesArgs ==
  [depName : FixDependencyNames, depLicense : FixDependencyLicenses,
   projectLicense : FixProjectLicenses]

\* The conflicts handed to analyze: a direct dependency, a second one, a
\* conflict reached through the second, a package that depends on another
\* version of itself, and a conflict that carries no contamination path.
ImpactPaths ==
  {[name |-> "pkg1", path |-> <<"app (MIT)", "pkg1 (GPL-3.0) <- CONFLICT">>],
   [name |-> "pkg2", path |-> <<"app (MIT)", "pkg2 (LGPL-2.1) <- CONFLICT">>],
   [name |-> "pkg1", path |-> <<"app (MIT)", "pkg2 (MIT)", "pkg1 (GPL-3.0) <- CONFLICT">>],
   [name |-> "pkg1", path |-> <<"app (MIT)", "pkg1", "pkg1 (GPL-3.0) <- CONFLICT">>],
   [name |-> "pkg2", path |-> <<>>]}

impactConflict(p, severity) ==
  [severity |-> severity, dependency |-> [name |-> p.name], contaminationPath |-> p.path]

ImpactConflicts ==
  {impactConflict(p, severity) : p \in ImpactPaths, severity \in {"CRITICAL", "HIGH"}}
    \cup {impactConflict(p, "MEDIUM") : p \in {q \in ImpactPaths : Len(q.path) = 3}}
    \cup {impactConflict(p, "LOW") : p \in {q \in ImpactPaths : Len(q.path) = 2}}

ConflictLists == UNION {[1..n -> ImpactConflicts] : n \in 0..MaxConflicts}

RiskScores == {0, 68, 70, 85, 98, 100}

AnalyzeArgs == [conflicts : ConflictLists, currentRiskScore : RiskScores]

\* The process at its start: nothing issued, nothing returned.
Fresh ==
  /\ ret = <<>>
  /\ done = FALSE
  /\ uuids = 0
  /\ clock = 0
  /\ log = <<>>

\* Only ILIScanner reads CODICENSE_DETERMINISTIC.
Init ==
  /\ rules = buildRules
  /\ \/ op = "isCompatible" /\ args \in IsCompatibleArgs /\ deterministic = FALSE
     \/ op = "scan" /\ args \in ScanArgs /\ deterministic = FALSE
     \/ op = "iliScan" /\ args \in ILIScanArgs /\ deterministic \in BOOLEAN
     \/ op = "analyze" /\ args \in AnalyzeArgs /\ deterministic = FALSE
     \/ op = "calculateSeverity" /\ args \in CalculateSeverityArgs /\ deterministic = FALSE
     \/ op = "generateFixes" /\ args \in GenerateFixesArgs /\ deterministic = FALSE
  /\ Fresh

\* The call returns result.
Return(result) ==
  /\ ret' = result
  /\ done' = TRUE
  /\ log' = Append(log, [op |-> op, args |-> args, ret |-> result])
  /\ UNCHANGED <<rules, op, args, clock, deterministic>>

\* compatibilityMatrix.isCompatible(...)
IsCompatible ==
  /\ op = "isCompatible"
  /\ ~done
  /\ Return(isCompatible(rules, args.projectLicense, args.dependencyLicense,
                         args.linkingModel, args.distributionModel, args.strictMode))
  /\ UNCHANGED uuids

\* ConflictDetector.scan returns result, stamped with the ids it draws.
ReturnScan(result) ==
  /\ Return(stampScan(result, uuids, clock))
  /\ uuids' = uuids + uuidsOfScan(result)

\* new ConflictDetector(config).scan(root)
Scan ==
  /\ op = "scan"
  /\ ~done
  /\ ReturnScan(scan(rules, args.config, args.root))

\* ILIScanner.scan returns result, stamped with the ids it draws.
ReturnILIScan(result) ==
  /\ Return(stampILIScan(result, uuids, clock, deterministic))
  /\ uuids' = uuids + uuidsOfILIScan(result, deterministic)

\* new ILIScanner(projectPath).scan(root, projectContext)
ILIScan ==
  /\ op = "iliScan"
  /\ ~done
  /\ ReturnILIScan(iliScan(rules, args.root, args.projectContext))

\* new CausalImpactEngine().analyze(conflicts, currentRiskScore)
Analyze ==
  /\ op = "analyze"
  /\ ~done
  /\ Return(analyze(args.conflicts, args.currentRiskScore))
  /\ UNCHANGED uuids

\* new DynamicRiskEngine().calculateSeverity(projectLicense, dependencyLicense,
\* context)
CalculateSeverity ==
  /\ op = "calculateSeverity"
  /\ ~done
  /\ Return(calculateSeverity(args.projectLicense, args.dependencyLicense, args.context))
  /\ UNCHANGED uuids

\* new FixFirstEngine().generateFixes(depName, depLicense, projectLicense)
GenerateFixes ==
  /\ op = "generateFixes"
  /\ ~done
  /\ Return(generateFixes(args.depName, args.depLicense, args.projectLicense))
  /\ UNCHANGED uuids

Next == IsCompatible \/ Scan \/ ILIScan \/ Analyze \/ CalculateSeverity \/ GenerateFixes

Spec == Init /\ [][Next]_vars

-----------------------------------------------------------------------------
(* A matrix over other rule tables: findRule and isCompatible read the     *)
(* table they are given, whatever rules it holds and in whatever order.    *)

MaxRules == 2

\* Rules over one linking and distribution model, with and without wildcards.
TableRules ==
  {[projectLicense |-> p, dependencyLicense |-> d, linkingModel |-> "static",
    distributionModel |-> "proprietary", compatible |-> c,
    severity |-> IF c THEN "LOW" ELSE "CRITICAL"] :
     p \in {"MIT", "*"}, d \in {"GPL-3.0", "*"}, c \in BOOLEAN}

\* The tables of at most MaxRules rules, the rule at position i named Ri.
Tables ==
  UNION {{[i \in 1..n |->
             [projectLicense |-> t[i].projectLicense,
              dependencyLicense |-> t[i].dependencyLicense,
              linkingModel |-> t[i].linkingModel,
              distributionModel |-> t[i].distributionModel,
              compatible |-> t[i].compatible, severity |-> t[i].severity,
              id |-> "R" \o ToString(i), reason |-> "rule " \o ToString(i)]] :
            t \in [1..n -> TableRules]} : n \in 0..MaxRules}

TableArgs ==
  [projectLicense : {"MIT", "Apache-2.0"}, dependencyLicense : {"GPL-3.0", "LGPL-2.1"},
   linkingModel : {"static", "dynamic"}, distributionModel : {"proprietary"},
   strictMode : BOOLEAN]

InitTable ==
  /\ rules \in Tables
  /\ op = "isCompatible"
  /\ args \in TableArgs
  /\ deterministic = FALSE
  /\ Fresh

NextTable == IsCompatible

SpecTable == InitTable /\ [][NextTable]_vars

-----------------------------------------------------------------------------
(* Several scans in one process.  The matrix, the catalog and the          *)
(* environment stay as they are; the uuids issued and the clock go on.     *)

MaxScans == 2

\* Two conflicting direct dependencies, a package that depends on a
\* conflicting version of itself, and a dependency whose alternatives all
\* conflict.
RepeatTrees ==
  {parse([n |-> 2,
          kinds |-> <<[license |-> StringLicense("GPL-3.0"), dev |-> FALSE],
                      [license |-> StringLicense("LGPL-2.1"), dev |-> FALSE]>>,
          nested |-> <<FALSE, FALSE>>]),
   parse([n |-> 2,
          kinds |-> <<[license |-> StringLicense("MIT"), dev |-> FALSE],
                      [license |-> StringLicense("GPL-3.0"), dev |-> FALSE]>>,
          nested |-> <<FALSE, TRUE>>]),
   altTree(StringLicense("GPL-3.0 OR LGPL-2.1"))}

\* A proprietary and an open-source configuration; a context of every intent.
RepeatConfigs ==
  {c \in ProjectConfigs : c.linkingModel = "static" /\ ~c.strictMode}

RepeatContexts ==
  {c \in ProjectContexts : c.projectLicense = "MIT"}

RepeatScanArgs == [config : RepeatConfigs, root : RepeatTrees]

RepeatILIScanArgs == [projectContext : RepeatContexts, root : RepeatTrees]

InitRepeat ==
  /\ rules = buildRules
  /\ \/ op = "scan" /\ args \in RepeatScanArgs
     \/ op = "iliScan" /\ args \in RepeatILIScanArgs
  /\ deterministic \in BOOLEAN
  /\ Fresh

\* The caller scans again, at once or later.
Again ==
  /\ done
  /\ Len(log) < MaxScans
  /\ \/ op' = "scan" /\ args' \in RepeatScanArgs
     \/ op' = "iliScan" /\ args' \in RepeatILIScanArgs
  /\ done' = FALSE
  /\ clock' \in {clock, clock + 1}
  /\ UNCHANGED <<rules, ret, uuids, deterministic, log>>

NextRepeat == Scan \/ ILIScan \/ Again

SpecRepeat == InitRepeat /\ [][NextRepeat]_vars

-----------------------------------------------------------------------------
(* Recursion over a dependency graph.  DependencyNode.children holds       *)
(* references, so a caller can hand in a graph in which a node is its own  *)
(* descendant.  Each recursive function is a machine over its call stack:  *)
(* a frame is a node and the index of the child its loop is at, and a call *)
(* that would need more than MaxStack frames ends in the engine's          *)
(* RangeError (maximum call stack size exceeded), which no caller catches. *)

MaxNodes == 3
MaxStack == 6

\* Node 1 is the root; names are distinct.
nodeName(k) == IF k = 1 THEN rootName ELSE "pkg" \o ToString(k - 1)

\* The numbers of S in ascending order.
RECURSIVE ascending(_)
ascending(S) ==
  IF S = {} THEN <<>>
  ELSE LET least == CHOOSE x \in S : \A y \in S : x <= y
       IN <<least>> \o ascending(S \ {least})

\* A tree over the nodes: the parent of each node but the root.
TreeParents == {p \in [2..MaxNodes -> 1..MaxNodes] : \A k \in 2..MaxNodes : p[k] < k}

\* One more reference from a node to any node, first or last among the
\* children; from 0 for none.
ExtraEdges ==
  {[from |-> 0, to |-> 0, front |-> FALSE]}
    \cup [from : 1..MaxNodes, to : 1..MaxNodes, front : BOOLEAN]

childrenIn(p, e, k) ==
  IF e.from # k THEN ascending({j \in 2..MaxNodes : p[j] = k})
  ELSE IF e.front THEN <<e.to>> \o ascending({j \in 2..MaxNodes : p[j] = k})
  ELSE ascending({j \in 2..MaxNodes : p[j] = k}) \o <<e.to>>

graphOf(p, e) ==
  [k \in 1..MaxNodes |-> [name |-> nodeName(k), children |-> childrenIn(p, e, k)]]

Graphs == {graphOf(p, e) : p \in TreeParents, e \in ExtraEdges}

\* The names a conflict can carry: those of the nodes and one of no node.
TargetNames == {nodeName(k) : k \in 1..MaxNodes} \cup {"ghost"}

frame(k) == [node |-> k, i |-> 1]

\* No call made yet.
Start ==
  [fn |-> "start", stack |-> <<>>, collection |-> <<>>, visited |-> <<>>, target |-> 0,
   path |-> <<>>, outcome |-> "running"]

InitWalk ==
  /\ rules = buildRules
  /\ \/ op = "collectNodes" /\ args \in [root : Graphs]
     \/ op = "buildConflictPath" /\ args \in [root : Graphs, name : TargetNames]
  /\ deterministic = FALSE
  /\ ret = Start
  /\ done = FALSE
  /\ uuids = 0
  /\ clock = 0
  /\ log = <<>>

\* The frame on top of the stack, and where its loop over the children is.
top == ret.stack[Len(ret.stack)]

atChild == top.i <= Len(args.root[top.node].children)

child == args.root[top.node].children[top.i]

\* The stack after the loop on top moved to its next child.
advanced == [ret.stack EXCEPT ![Len(ret.stack)].i = @ + 1]

popped == SubSeq(ret.stack, 1, Len(ret.stack) - 1)

\* The names of the nodes on the stack, bottom first.
pathNames(stack) == [k \in 1..Len(stack) |-> nodeName(stack[k].node)]

\* One step inside the recursion.
Walk(next) ==
  /\ ret' = next
  /\ UNCHANGED <<rules, op, args, done, uuids, clock, deterministic, log>>

\* The outermost call ends.
Finish(next) ==
  /\ Return(next)
  /\ UNCHANGED uuids

\* scan: this.collectNodes(root, allNodes)
BeginCollect ==
  /\ op = "collectNodes"
  /\ ~done
  /\ ret.fn = "start"
  /\ Walk([ret EXCEPT !.fn = "collectNodes", !.stack = <<frame(1)>>, !.collection = <<1>>])

\* collectNodes: this.collectNodes(child, collection), which pushes child
CollectCall ==
  /\ ret.fn = "collectNodes"
  /\ ~done
  /\ atChild
  /\ Len(ret.stack) < MaxStack
  /\ Walk([ret EXCEPT !.stack = Append(advanced, frame(child)),
                      !.collection = Append(@, child)])

\* collectNodes: the loop is over
CollectReturn ==
  /\ ret.fn = "collectNodes"
  /\ ~done
  /\ ~atChild
  /\ IF Len(ret.stack) > 1 THEN Walk([ret EXCEPT !.stack = popped])
     ELSE Finish([ret EXCEPT !.stack = <<>>, !.outcome = "returned"])

\* A call with the stack full throws.
StackOverflow ==
  /\ ret.fn \in {"collectNodes", "findNode", "findPathRecursive"}
  /\ ~done
  /\ atChild
  /\ Len(ret.stack) = MaxStack
  /\ Finish([ret EXCEPT !.outcome = "RangeError"])

\* buildConflictPath: this.findNode(root, conflict.dependency.name); a root
\* of that name is its own path.
BeginBuild ==
  /\ op = "buildConflictPath"
  /\ ~done
  /\ ret.fn = "start"
  /\ IF nodeName(1) = args.name
     THEN Finish([ret EXCEPT !.target = 1, !.path = <<nodeName(1)>>, !.outcome = "returned"])
     ELSE Walk([ret EXCEPT !.fn = "findNode", !.stack = <<frame(1)>>])

\* findNode: this.findNode(child, targetName) on a child of another name
FindNodeCall ==
  /\ ret.fn = "findNode"
  /\ ~done
  /\ atChild
  /\ Len(ret.stack) < MaxStack
  /\ nodeName(child) # args.name
  /\ Walk([ret EXCEPT !.stack = Append(advanced, frame(child))])

\* findNode: the child has the name; every caller returns it, and
\* tracePath(root, targetNode) enters findPathRecursive at the root.
FindNodeFound ==
  /\ ret.fn = "findNode"
  /\ ~done
  /\ atChild
  /\ Len(ret.stack) < MaxStack
  /\ nodeName(child) = args.name
  /\ Walk([ret EXCEPT !.fn = "findPathRecursive", !.stack = <<frame(1)>>,
                      !.visited = <<nodeName(1)>>, !.target = child])

\* findNode: the loop is over, return null; at the root, buildConflictPath
\* answers with the direct path.
FindNodeReturn ==
  /\ ret.fn = "findNode"
  /\ ~done
  /\ ~atChild
  /\ IF Len(ret.stack) > 1 THEN Walk([ret EXCEPT !.stack = popped])
     ELSE Finish([ret EXCEPT !.stack = <<>>, !.path = <<nodeName(1), args.name>>,
                             !.outcome = "returned"])

\* findPathRecursive: the child is the target
FindPathFound ==
  /\ ret.fn = "findPathRecursive"
  /\ ~done
  /\ atChild
  /\ Len(ret.stack) < MaxStack
  /\ nodeName(child) = nodeName(ret.target)
  /\ Finish([ret EXCEPT !.stack = <<>>,
                        !.path = Append(pathNames(ret.stack), nodeName(child)),
                        !.outcome = "returned"])

\* findPathRecursive: the child's name was visited, return null
FindPathVisited ==
  /\ ret.fn = "findPathRecursive"
  /\ ~done
  /\ atChild
  /\ Len(ret.stack) < MaxStack
  /\ nodeName(child) # nodeName(ret.target)
  /\ \E k \in 1..Len(ret.visited) : ret.visited[k] = nodeName(child)
  /\ Walk([ret EXCEPT !.stack = advanced])

\* findPathRecursive: visited.push(current.name) and into the children
FindPathCall ==
  /\ ret.fn = "findPathRecursive"
  /\ ~done
  /\ atChild
  /\ Len(ret.stack) < MaxStack
  /\ nodeName(child) # nodeName(ret.target)
  /\ \A k \in 1..Len(ret.visited) : ret.visited[k] # nodeName(child)
  /\ Walk([ret EXCEPT !.stack = Append(advanced, frame(child)),
                      !.visited = Append(@, nodeName(child))])

\* findPathRecursive: the loop is over, return null; at the root, tracePath
\* answers with [root, target].
FindPathReturn ==
  /\ ret.fn = "findPathRecursive"
  /\ ~done
  /\ ~atChild
  /\ IF Len(ret.stack) > 1 THEN Walk([ret EXCEPT !.stack = popped])
     ELSE Finish([ret EXCEPT !.stack = <<>>,
                             !.path = <<nodeName(1), nodeName(ret.target)>>,
                             !.outcome = "returned"])

NextWalk ==
  \/ BeginCollect \/ CollectCall \/ CollectReturn
  \/ BeginBuild \/ FindNodeCall \/ FindNodeFound \/ FindNodeReturn
  \/ FindPathFound \/ FindPathVisited \/ FindPathCall \/ FindPathReturn
  \/ StackOverflow

SpecWalk == InitWalk /\ [][NextWalk]_vars

-----------------------------------------------------------------------------
(* Trees in which a package name recurs.  A lockfile nests a dependency    *)
(* under each package that needs its own version of it, so one name may    *)
(* stand at several places of the tree, with other dependencies below it.  *)

\* The names of the dependencies; gpl-lib is the GPL-3.0 one.
PathNames == {"pkg1", "pkg2", "gpl-lib"}

\* Dependency j is declared by dependency p[j], by the root when p[j] = 0.
PathParents(n) == {p \in [1..n -> 0..n] : \A j \in 1..n : p[j] < j}

\* The dependencies that k declares, in lockfile order.
declaredBy(p, k) == ascending({j \in DOMAIN p : p[j] = k})

\* buildNodeFromV1 for dependency k.
RECURSIVE nestedNode(_, _, _, _, _)
nestedNode(p, names, k, depth, currentPath) ==
  [name |-> names[k],
   version |-> "1.0.0",
   license |-> StringLicense(IF names[k] = "gpl-lib" THEN "GPL-3.0" ELSE "MIT"),
   depth |-> depth,
   path |-> currentPath,
   children |-> [i \in 1..Len(declaredBy(p, k)) |->
                   nestedNode(p, names, declaredBy(p, k)[i], depth + 1,
                              Append(currentPath, names[declaredBy(p, k)[i]]))],
   dev |-> FALSE]

\* parseV1 of a lockfile with the dependencies p under the names given.
nestedTree(p, names) ==
  [name |-> rootName, version |-> "1.0.0", license |-> StringLicense("MIT"), depth |-> 0,
   path |-> <<rootName>>,
   children |-> [i \in 1..Len(declaredBy(p, 0)) |->
                   nestedNode(p, names, declaredBy(p, 0)[i], 1,
                              <<rootName, names[declaredBy(p, 0)[i]]>>)],
   dev |-> FALSE]

\* The keys of one dependencies object are distinct.
DistinctSiblings(p, names) ==
  \A i, j \in DOMAIN p : (i # j /\ p[i] = p[j]) => names[i] # names[j]

PathTrees ==
  UNION {{nestedTree(w.p, w.names) :
            w \in {v \in [p : PathParents(n), names : [1..n -> PathNames]] :
                     /\ DistinctSiblings(v.p, v.names)
                     /\ \E j \in 1..n : v.names[j] = "gpl-lib"}}
         : n \in 1..MaxDeps}

PathContexts ==
  {c \in ProjectContexts : c.projectLicense = "MIT" /\ c.intent = "proprietary"}

PathILIScanArgs == [projectContext : PathContexts, root : PathTrees]

InitPath ==
  /\ rules = buildRules
  /\ op = "iliScan"
  /\ args \in PathILIScanArgs
  /\ deterministic \in BOOLEAN
  /\ Fresh

NextPath == ILIScan

SpecPath == InitPath /\ [][NextPath]_vars

-----------------------------------------------------------------------------
(* Properties of CompatibilityMatrix.isCompatible.                         *)

Returned(o) == done /\ op = o

\* The fields findRule compares, after isCompatible's normalisation.
ExactMatch(rule) ==
  /\ rule.projectLicense = normalizeLicenseId(args.projectLicense)
  /\ rule.dependencyLicense = normalizeLicenseId(args.dependencyLicense)
  /\ rule.linkingModel = args.linkingModel
  /\ rule.distributionModel = args.distributionModel

WildcardMatch(rule) ==
  /\ rule.projectLicense \in {normalizeLicenseId(args.projectLicense), "*"}
  /\ rule.dependencyLicense \in {normalizeLicenseId(args.dependencyLicense), "*"}
  /\ rule.linkingModel = args.linkingModel
  /\ rule.distributionModel = args.distributionModel

ExactIndices == {i \in 1..Len(rules) : ExactMatch(rules[i])}
WildcardIndices == {i \in 1..Len(rules) : WildcardMatch(rules[i])}

VerdictOfRule(i) ==
  /\ ret.compatible = rules[i].compatible
  /\ ret.severity = rules[i].severity
  /\ ret.ruleId = rules[i].id
  /\ ret.isHeuristic = FALSE

\* C1: whatever the project license, dependency license (unknown, empty and
\* unlisted ids included), linking model, distribution model and strictMode,
\* isCompatible returns a verdict with compatible a boolean and severity one of
\* LOW, MEDIUM, HIGH, CRITICAL.
C1_VerdictTotal ==
  Returned("isCompatible") =>
    /\ DOMAIN ret = {"compatible", "reason", "severity", "ruleId", "isHeuristic"}
    /\ ret.compatible \in BOOLEAN
    /\ ret.severity \in Severities

\* C1 witness: a verdict for an empty dependency license has been returned.
C1_Witness ==
  /\ Returned("isCompatible")
  /\ args.dependencyLicense = ""
  /\ args.linkingModel = "runtime"
  /\ args.distributionModel = "internal-only"
  /\ ~args.strictMode
  /\ ret.severity = "LOW"

\* C2: an exact 4-tuple rule wins over any wildcard rule wherever the two sit
\* in the table; a matching wildcard rule wins over strict-mode rejection; with
\* no matching rule, strictMode gives incompatible / HIGH / STRICT_MODE_VIOLATION
\* and only non-strict mode reaches the heuristic.
C2_Precedence ==
  Returned("isCompatible") =>
    /\ ExactIndices # {} =>
         \E i \in ExactIndices : /\ \A j \in ExactIndices : i <= j
                                 /\ VerdictOfRule(i)
    /\ (ExactIndices = {} /\ WildcardIndices # {}) =>
         \E i \in WildcardIndices : /\ \A j \in WildcardIndices : i <= j
                                    /\ VerdictOfRule(i)
    /\ (WildcardIndices = {} /\ args.strictMode) =>
         /\ ret.compatible = FALSE
         /\ ret.severity = "HIGH"
         /\ ret.ruleId = "STRICT_MODE_VIOLATION"
         /\ ret.isHeuristic = FALSE
    /\ ret.isHeuristic <=> (WildcardIndices = {} /\ ~args.strictMode)

\* C2 witness: a wildcard rule sits before the exact rule, the two disagree, and
\* the exact rule decided, under strict mode.
C2_Witness ==
  /\ Returned("isCompatible")
  /\ Len(rules) = 2
  /\ rules[1].projectLicense = "*" /\ rules[1].dependencyLicense = "*"
  /\ ExactMatch(rules[2])
  /\ rules[1].compatible # rules[2].compatible
  /\ args.strictMode
  /\ ret.ruleId = "R2"

\* The project license is one the catalog classes as permissive.
PermissiveProject ==
  getLicense(normalizeLicenseId(args.projectLicense)).category = "permissive"

GplStaticProprietary ==
  /\ Returned("isCompatible")
  /\ PermissiveProject
  /\ normalizeLicenseId(args.dependencyLicense) \in {"GPL-2.0", "GPL-3.0"}
  /\ args.linkingModel = "static"
  /\ args.distributionModel = "proprietary"

\* C3 as stated: for every permissive project license, GPL-2.0 or GPL-3.0 under
\* static linking and proprietary distribution is incompatible / CRITICAL, for
\* both values of strictMode.
C3_Original ==
  GplStaticProprietary => (ret.compatible = FALSE /\ ret.severity = "CRITICAL")

\* C3 amended: the verdict is incompatible for both values of strictMode; the
\* severity is CRITICAL when strictMode is false or an explicit rule matches,
\* and HIGH with rule id STRICT_MODE_VIOLATION when strictMode is true and no
\* rule matches.
C3_Amended ==
  GplStaticProprietary =>
    /\ ret.compatible = FALSE
    /\ (~args.strictMode \/ WildcardIndices # {}) => ret.severity = "CRITICAL"
    /\ (args.strictMode /\ WildcardIndices = {}) =>
         (ret.severity = "HIGH" /\ ret.ruleId = "STRICT_MODE_VIOLATION")

\* C3 witness: a permissive project with no GPL rule (Zlib) got the heuristic's
\* CRITICAL verdict.
C3_Witness ==
  /\ GplStaticProprietary
  /\ args.projectLicense = "Zlib"
  /\ ~args.strictMode
  /\ ret.isHeuristic
  /\ ret.severity = "CRITICAL"

\* C4 as stated: for every project license, AGPL-3.0 under saas distribution
\* (static linking, non-strict) is incompatible / CRITICAL.
C4_AgplSaas ==
  ( /\ Returned("isCompatible")
    /\ normalizeLicenseId(args.dependencyLicense) = "AGPL-3.0"
    /\ args.distributionModel = "saas"
    /\ args.linkingModel = "static"
    /\ ~args.strictMode )
  => (ret.compatible = FALSE /\ ret.severity = "CRITICAL")

\* C5: if strictMode = true yields compatible = true, strictMode = false on the
\* same input yields compatible = true.
C5_StrictOnlyTightens ==
  (Returned("isCompatible") /\ args.strictMode /\ ret.compatible) =>
    isCompatible(rules, args.projectLicense, args.dependencyLicense,
                 args.linkingModel, args.distributionModel, FALSE).compatible

\* C5 witness: strict mode accepted a pair whose category the heuristic alone
\* would refuse (weak copyleft, static linking).
C5_Witness ==
  /\ Returned("isCompatible")
  /\ args.strictMode
  /\ ret.compatible
  /\ args.dependencyLicense = "MPL-2.0"
  /\ args.linkingModel = "static"

\* The category the heuristic reads: that of the normalised dependency license.
DepCategory == getLicense(normalizeLicenseId(args.dependencyLicense)).category

\* C6: with no matching rule and strictMode false the verdict follows the
\* dependency's category, first match winning: unknown, empty or unlisted ->
\* compatible / LOW; permissive -> compatible / LOW; strong copyleft with
\* proprietary distribution -> incompatible / CRITICAL; weak copyleft with
\* dynamic linking -> compatible / LOW; anything else -> incompatible / MEDIUM.
\* Such a verdict has isHeuristic = true, a rule's verdict isHeuristic = false.
C6_HeuristicTable ==
  Returned("isCompatible") =>
    /\ (WildcardIndices = {} /\ ~args.strictMode) =>
         /\ ret.isHeuristic = TRUE
         /\ <<ret.compatible, ret.severity>> =
              ( IF \/ normalizeLicenseId(args.dependencyLicense) \in {"UNKNOWN", ""}
                   \/ DepCategory = "undefined"
                  THEN <<TRUE, "LOW">>
                ELSE IF DepCategory = "permissive" THEN <<TRUE, "LOW">>
                ELSE IF /\ DepCategory = "strong-copyleft"
                        /\ args.distributionModel = "proprietary"
                  THEN <<FALSE, "CRITICAL">>
                ELSE IF DepCategory = "weak-copyleft" /\ args.linkingModel = "dynamic"
                  THEN <<TRUE, "LOW">>
                ELSE <<FALSE, "MEDIUM">> )
    /\ WildcardIndices # {} => ret.isHeuristic = FALSE

\* C6 witness: an unlisted license was answered compatible / LOW by the
\* heuristic.
C6_Witness ==
  /\ Returned("isCompatible")
  /\ args.dependencyLicense = "CUSTOM-LICENSE-1.0"
  /\ ~args.strictMode
  /\ ret.isHeuristic
  /\ ret.compatible
  /\ ret.severity = "LOW"

-----------------------------------------------------------------------------
(* Properties of ConflictDetector.scan and ILIScanner.scan.                *)

\* The nodes of a tree.
RECURSIVE TreeNodes(_)
TreeNodes(node) ==
  {node} \cup UNION {TreeNodes(node.children[i]) : i \in 1..Len(node.children)}

\* Whether a conflict names a node.
RefersTo(conflict, node) ==
  /\ conflict.dependency.name = node.name
  /\ conflict.dependency.version = node.version
  /\ conflict.dependency.path = node.path

\* Whether an alternative is compatible under the scan's configuration.
AltCompatible(id) ==
  isCompatible(rules, args.config.projectLicense, id, args.config.linkingModel,
               args.config.distributionModel, args.config.strictMode).compatible

\* The forms in which a node offers the alternatives a.
Offers(a) ==
  {ArrayLicense(a)} \cup {StringLicense(join(a, sep)) : sep \in OrSeparators}

\* C7: for a node that offers alternative licenses, as an array of ids or as
\* an 'A OR B' string, scan emits a Conflict for the node if and only if every
\* alternative is incompatible; one compatible alternative, at whatever
\* position, leaves the node conflict-free.
C7_Alternatives ==
  ( /\ Returned("scan")
    /\ Len(args.root.children) = 1
    /\ args.root.children[1].name = "dual" ) =>
      \A a \in AltLists \ {<<>>} :
        (args.root.children[1].license \in Offers(a)) =>
          /\ (ret.conflicts # <<>>) <=> (\A i \in 1..Len(a) : ~AltCompatible(a[i]))
          /\ (\E i \in 1..Len(a) : AltCompatible(a[i])) => ret.conflicts = <<>>
          /\ \A k \in 1..Len(ret.conflicts) :
               RefersTo(ret.conflicts[k], args.root.children[1])

\* C7 witness: a scan of a dependency licensed 'GPL-3.0 OR MIT' by an MIT
\* project, statically linked and distributed as proprietary, has found no
\* conflict: the second alternative is the compatible one.
C7_Witness ==
  /\ Returned("scan")
  /\ args.root = altTree(StringLicense("GPL-3.0 OR MIT"))
  /\ args.config.projectLicense = "MIT"
  /\ args.config.linkingModel = "static"
  /\ ~args.config.strictMode
  /\ ~AltCompatible("GPL-3.0")
  /\ ret.conflicts = <<>>

\* C8: scan emits no Conflict for the root or for a dev-only node and at most
\* one Conflict for each other node; every Conflict names exactly one node of
\* the tree by name, version and path.
C8_OneConflictPerNode ==
  Returned("scan") =>
    /\ \A k \in 1..Len(ret.conflicts) :
         /\ Cardinality({n \in TreeNodes(args.root) : RefersTo(ret.conflicts[k], n)}) = 1
         /\ \A n \in TreeNodes(args.root) :
              RefersTo(ret.conflicts[k], n) => (n # args.root /\ n.depth # 0 /\ ~n.dev)
    /\ \A k, m \in 1..Len(ret.conflicts) :
         (k # m) => (ret.conflicts[k].dependency # ret.conflicts[m].dependency)

\* C8 witness: a scan of a tree whose dev-only GPL-3.0 dependency pkg1 has a
\* shipped GPL-3.0 dependency of the same name has found the one conflict, on
\* the nested node.
C8_Witness ==
  /\ Returned("scan")
  /\ Len(args.root.children) = 1
  /\ args.root.children[1].dev
  /\ args.root.children[1].license = StringLicense("GPL-3.0")
  /\ Len(ret.conflicts) = 1
  /\ ret.conflicts[1].dependency.path = <<"app", "pkg1", "pkg1">>

\* The number of conflicts of a severity in the result.
Emitted(severity) ==
  Cardinality({k \in 1..Len(ret.conflicts) : ret.conflicts[k].severity = severity})

Penalty ==
  30 * Emitted("CRITICAL") + 15 * Emitted("HIGH") + 5 * Emitted("MEDIUM")
  + 2 * Emitted("LOW")

\* C9: the riskScore of scan is 100 minus 30 per CRITICAL, 15 per HIGH, 5 per
\* MEDIUM and 2 per LOW conflict emitted, clamped to [0,100]: 100 with no
\* conflict, 70 with exactly one CRITICAL conflict, never outside [0,100].
C9_RiskScore ==
  Returned("scan") =>
    /\ ret.riskScore = (IF Penalty >= 100 THEN 0 ELSE 100 - Penalty)
    /\ ret.riskScore \in 0..100
    /\ (ret.conflicts = <<>>) => ret.riskScore = 100
    /\ (Len(ret.conflicts) = 1 /\ Emitted("CRITICAL") = 1) => ret.riskScore = 70

\* C9 witness: a scan has found four CRITICAL conflicts, a penalty of 120, and
\* scored 0.
C9_Witness ==
  /\ Returned("scan")
  /\ Emitted("CRITICAL") = 4
  /\ Len(ret.conflicts) = 4
  /\ ret.riskScore = 0

\* The weight calculateDynamicRisk sums, counted from the summary of the
\* orchestrated scan (a conflict graded safe weighs 0).
SummaryWeight ==
  10 * ret.summary.critical + 5 * ret.summary.high + 2 * ret.summary.medium
  + ret.summary.low

\* C10 as stated: the risk score of the orchestrated scan is the detector's
\* aggregate score, 100 for a tree with no conflicts and lowered by the fixed
\* penalties of the conflicts found, 70 for the Scenario A tree.
C10_Original ==
  Returned("iliScan") =>
    ret.riskScore = scan(rules, detectorConfig(args.projectContext), args.root).riskScore

\* C10: the risk score of the orchestrated scan is 0 for a tree with no
\* conflicts and otherwise the mean dynamic-severity weight of the conflicts
\* (critical 10, high 5, medium 2, low 1, safe 0) times ten, rounded to the
\* nearest integer and capped at 100; the Scenario A tree under proprietary
\* intent scores 100.
C10_Amended ==
  Returned("iliScan") =>
    LET n == Len(ret.conflicts) IN
    /\ ret.riskScore \in 0..100
    /\ (n = 0) => ret.riskScore = 0
    /\ (n > 0 /\ ret.riskScore < 100) =>
         /\ 2 * n * ret.riskScore <= 20 * SummaryWeight + n
         /\ 20 * SummaryWeight + n < 2 * n * (ret.riskScore + 1)
    /\ (n > 0 /\ ret.riskScore = 100) => 20 * SummaryWeight + n >= 200 * n
    /\ ( /\ n = 1
         /\ ret.conflicts[1].dependency.license = "GPL-3.0"
         /\ args.projectContext.intent = "proprietary" ) => ret.riskScore = 100

\* C10 witness: the orchestrated scan of an MIT project of proprietary intent
\* with the one dependency GPL-3.0, statically linked, has found the one
\* conflict, graded critical, and scored 100.
C10_Witness ==
  /\ Returned("iliScan")
  /\ args.projectContext.projectLicense = "MIT"
  /\ args.projectContext.intent = "proprietary"
  /\ Len(args.root.children) = 1
  /\ args.root.children[1].license = StringLicense("GPL-3.0")
  /\ args.root.children[1].children = <<>>
  /\ Len(ret.conflicts) = 1
  /\ ret.conflicts[1].severity = "CRITICAL"
  /\ ret.conflicts[1].dynamicSeverity.level = "critical"
  /\ ret.riskScore = 100

-----------------------------------------------------------------------------
(* Dynamic severity.                                                       *)

\* The project license calculateSeverity grades against: the argument, or
\* the context's when the argument is absent.
EffectiveLicense ==
  IF args.projectLicense # absent THEN args.projectLicense ELSE args.context.projectLicense

\* Every field of the severity is filled in.
Complete(severity) ==
  /\ DOMAIN severity = {"level", "reason", "obligation", "contextualExplanation",
                        "appliesWhen", "intentImpact"}
  /\ severity.level \in Levels
  /\ severity.reason # ""
  /\ severity.obligation # ""
  /\ severity.contextualExplanation # ""
  /\ Len(severity.appliesWhen) > 0
  /\ \A k \in 1..Len(severity.appliesWhen) : severity.appliesWhen[k] # ""
  /\ severity.intentImpact # ""

\* C13: calculateSeverity returns a complete result for every intent (an
\* unrecognised one treated as undecided), dependency license, linking model
\* and present or absent project license: the level is one of safe, low,
\* medium, high, critical and every explanation field is filled in.
C13_Complete ==
  Returned("calculateSeverity") =>
    /\ Complete(ret)
    /\ args.context.intent \notin DeveloperIntents =>
         ret = calculateSeverity(args.projectLicense, args.dependencyLicense,
                                 [args.context EXCEPT !.intent = "undecided"])

\* An unrecognised intent with an unrecognised license and no project
\* license.
C13_Witness ==
  /\ Returned("calculateSeverity")
  /\ args.context.intent = "internal"
  /\ args.dependencyLicense = "UNKNOWN"
  /\ EffectiveLicense = absent
  /\ ret.level = "low"

\* Strong copyleft as the specification words it: GPL or AGPL, not LGPL.
StrongCopyleft(license) == includes(license, "GPL") /\ ~includes(license, "LGPL")

\* The proprietary table, first matching row.
ProprietaryRow(license, linkingModel) ==
  IF StrongCopyleft(license) THEN "critical"
  ELSE IF includes(license, "MPL") THEN "medium"
  ELSE IF isWeakCopyleft(license) /\ linkingModel = "static" THEN "high"
  ELSE IF isWeakCopyleft(license) /\ linkingModel \in {"dynamic", "runtime"} THEN "medium"
  ELSE IF isPermissive(license) THEN "safe"
  ELSE "medium"

Declared(license) == license \notin {absent, ""}

\* The open-source table in the order the specification lists its rows.
ListedRow(license, projectLicense) ==
  IF ~Declared(projectLicense) THEN "low"
  ELSE IF normalizeLicense(license) = normalizeLicense(projectLicense) THEN "safe"
  ELSE IF isPermissive(license) THEN "safe"
  ELSE IF isGPLCompatible(license, projectLicense) THEN "safe"
  ELSE IF includes(projectLicense, "GPL") /\ includes(license, "Apache-2.0") THEN "high"
  ELSE IF StrongCopyleft(license) THEN "high"
  ELSE "medium"

\* The open-source table with the Apache-2.0 row third and the permissive row
\* last but one.
OpenSourceRow(license, projectLicense) ==
  IF ~Declared(projectLicense) THEN "low"
  ELSE IF normalizeLicense(license) = normalizeLicense(projectLicense) THEN "safe"
  ELSE IF includes(projectLicense, "GPL") /\ includes(license, "Apache-2.0") THEN "high"
  ELSE IF isGPLCompatible(license, projectLicense) THEN "safe"
  ELSE IF StrongCopyleft(license) THEN "high"
  ELSE IF isPermissive(license) THEN "safe"
  ELSE "medium"

-----------------------------------------------------------------------------
(* Fix suggestions.                                                        *)

\* The strategies of the suggestions, as a set.
Strategies(fixes) == {fixes[k].strategy : k \in 1..Len(fixes)}

\* Some suggestion has this strategy and this effort.
Suggests(fixes, strategy, effort) ==
  \E k \in 1..Len(fixes) : fixes[k].strategy = strategy /\ fixes[k].effort = effort

\* C19: generateFixes returns a non-empty list that always contains replace
\* (low), isolate (medium), remove (high) and boundary-refactor (high), in
\* which effort never decreases, and every suggestion carries tradeoffs and
\* a time estimate.
C19_FourStrategies ==
  Returned("generateFixes") =>
    /\ Len(ret) > 0
    /\ Suggests(ret, "replace", "low")
    /\ Suggests(ret, "isolate", "medium")
    /\ Suggests(ret, "remove", "high")
    /\ Suggests(ret, "boundary-refactor", "high")
    /\ \A j, k \in 1..Len(ret) : j < k => effortRank(ret[j].effort) <= effortRank(ret[k].effort)
    /\ \A k \in 1..Len(ret) : Len(ret[k].tradeoffs) > 0 /\ ret[k].estimatedTime # ""

\* Both conditional suggestions were pushed after the high-effort ones and
\* are returned before the medium one.
C19_Witness ==
  /\ Returned("generateFixes")
  /\ Len(ret) = 6
  /\ ret[3].effort = "low"
  /\ ret[4].strategy = "isolate"

\* The license is GPL-2.0, with or without an -only or -or-later suffix.
IsGPL2(license) == normalizeLicense(license) = "GPL-2.0"

\* The suggestions with this strategy are low-effort and stand before every
\* suggestion of higher effort.
AmongLow(fixes, strategy) ==
  \A k \in 1..Len(fixes) :
    fixes[k].strategy = strategy =>
      /\ fixes[k].effort = "low"
      /\ \A j \in 1..(k - 1) : fixes[j].effort = "low"

\* C20: generateFixes adds an upgrade suggestion exactly when the dependency
\* license is GPL-2.0, and a dual-license suggestion exactly when the
\* dependency is GPL-family and the project license is declared and is not
\* GPL; no other suggestion is conditional, and both, when present, are among
\* the low-effort suggestions at the front of the list.
C20_Conditional ==
  Returned("generateFixes") =>
    /\ ("upgrade" \in Strategies(ret)) <=> IsGPL2(args.depLicense)
    /\ ("dual-license" \in Strategies(ret)) <=>
         (/\ includes(args.depLicense, "GPL")
          /\ Declared(args.projectLicense)
          /\ ~includes(args.projectLicense, "GPL"))
    /\ Strategies(ret) \ {"upgrade", "dual-license"} =
         {"replace", "isolate", "remove", "boundary-refactor"}
    /\ AmongLow(ret, "upgrade")
    /\ AmongLow(ret, "dual-license")

-----------------------------------------------------------------------------
(* Causal impact.                                                          *)

\* The packages on the contamination path of a conflict, the root excluded.
PathPackages(conflict) ==
  {extractPathNodes(conflict)[k] : k \in 1..Len(extractPathNodes(conflict))}

\* The input conflicts whose path passes through package P.
Through(conflicts, P) == {i \in 1..Len(conflicts) : P \in PathPackages(conflicts[i])}

\* The sum of the severity weights of the conflicts from i on that pass
\* through P.
RECURSIVE WeightThrough(_, _, _)
WeightThrough(conflicts, P, i) ==
  IF i > Len(conflicts) THEN 0
  ELSE (IF P \in PathPackages(conflicts[i]) THEN SEVERITY_WEIGHT(conflicts[i].severity) ELSE 0)
       + WeightThrough(conflicts, P, i + 1)

\* The entry of package P counts each conflict through P once.
CountsOnce(conflicts, score, entry) ==
  /\ entry.conflictsRemoved = Cardinality(Through(conflicts, entry.packageName))
  /\ \A severity \in Severities :
       entry.severityBreakdown[severity] =
         Cardinality({i \in Through(conflicts, entry.packageName) :
                        conflicts[i].severity = severity})
  /\ entry.riskScoreAfterRemoval =
       Min(100, score + WeightThrough(conflicts, entry.packageName, 1))
  /\ entry.conflictsRemoved <= Len(conflicts)

\* C16: for every list of conflicts and every risk score below 100, analyze
\* returns one entry for each package on a contamination path (root
\* excluded), whose conflictsRemoved is the number of input conflicts through
\* that package, whose severity tally counts exactly those conflicts, whose
\* weight is the sum of their severity weights, and whose conflictsRemoved
\* never exceeds the number of input conflicts.
C16_Attribution ==
  (Returned("analyze") /\ args.currentRiskScore < 100) =>
    /\ {ret[k].packageName : k \in 1..Len(ret)} =
         UNION {PathPackages(args.conflicts[i]) : i \in 1..Len(args.conflicts)}
    /\ \A k \in 1..Len(ret) : CountsOnce(args.conflicts, args.currentRiskScore, ret[k])

\* A conflict whose path names one package twice is counted twice for it.
C16_Witness ==
  /\ Returned("analyze")
  /\ args.currentRiskScore < 100
  /\ Len(args.conflicts) = 2
  /\ \E k \in 1..Len(ret) : ret[k].conflictsRemoved = 2 /\ ret[k].riskScoreAfterRemoval < 100

\* The accumulated weight of package P, as analyze accumulates it.
AccumulatedWeight(byPackage, P) ==
  byPackage[CHOOSE k \in 1..Len(byPackage) : byPackage[k].pkg = P].weight

\* contribution (in hundredths of a percent) is min(100, 100 * weight /
\* penalty) to the nearest hundredth.
IsContribution(contribution, weight, penalty) ==
  IF weight >= penalty THEN contribution = 10000
  ELSE /\ 2 * (contribution * penalty - 10000 * weight) <= penalty
       /\ 2 * (10000 * weight - contribution * penalty) <= penalty

\* C17: every entry returned by analyze has a risk contribution of
\* min(100, 100 * accumulated weight / baseline penalty), which lies between
\* 0 and 100 however many conflicts pass through the package, and is exactly
\* 100 when there is a single conflict whose weight equals the penalty.
C17_Contribution ==
  Returned("analyze") =>
    \A k \in 1..Len(ret) :
      /\ IsContribution(ret[k].riskContribution,
                        AccumulatedWeight(creditConflicts(<<>>, args.conflicts, 1),
                                          ret[k].packageName),
                        100 - args.currentRiskScore)
      /\ ret[k].riskContribution \in 0..10000
      /\ (/\ Len(args.conflicts) = 1
          /\ SEVERITY_WEIGHT(args.conflicts[1].severity) = 100 - args.currentRiskScore)
         => ret[k].riskContribution = 10000

\* Two identical conflicts that together outweigh the penalty are capped,
\* while another entry of the same result is not.
C17_Witness ==
  /\ Returned("analyze")
  /\ Len(args.conflicts) = 2
  /\ args.conflicts[1] = args.conflicts[2]
  /\ 2 * SEVERITY_WEIGHT(args.conflicts[1].severity) > 100 - args.currentRiskScore
  /\ SEVERITY_WEIGHT(args.conflicts[1].severity) < 100 - args.currentRiskScore
  /\ \E k \in 1..Len(ret) : ret[k].riskContribution = 10000

\* C18: analyze returns an empty list whenever the conflict list is empty or
\* the baseline penalty, 100 minus the current risk score, is zero.
C18_EmptyResult ==
  (Returned("analyze") /\ (Len(args.conflicts) = 0 \/ 100 - args.currentRiskScore = 0))
    => ret = <<>>

\* Conflicts at a score of 100 give nothing.
C18_Witness ==
  /\ Returned("analyze")
  /\ Len(args.conflicts) = MaxConflicts
  /\ args.currentRiskScore = 100
  /\ ret = <<>>

-----------------------------------------------------------------------------
(* Repeated scans.                                                         *)

\* A record without the fields of S.
Without(r, S) == [f \in DOMAIN r \ S |-> r[f]]

\* The findings of a scan result: everything but the generated ids and the
\* timestamp; the conflict paths are kept by position.
Findings(result) ==
  [scan |-> Without(result, {"scanId", "timestamp", "conflicts", "enhancedConflicts",
                             "conflictPaths"}),
   conflicts |-> [k \in 1..Len(result.conflicts) |-> Without(result.conflicts[k], {"id"})],
   paths |-> IF "conflictPaths" \in DOMAIN result
             THEN [k \in 1..Len(result.conflictPaths) |-> result.conflictPaths[k].value]
             ELSE <<>>]

\* Two calls of the log made the same scan.
SameScan(a, b) == a.op = b.op /\ a.args = b.args

-----------------------------------------------------------------------------
(* Malformed trees.                                                        *)

\* The nodes within n references of the nodes of S.
RECURSIVE Within(_, _, _)
Within(graph, S, n) ==
  IF n = 0 THEN S
  ELSE Within(graph,
              S \cup UNION {{graph[k].children[j] : j \in 1..Len(graph[k].children)} : k \in S},
              n - 1)

\* The names of the nodes the root leads to.
Located(graph) == {nodeName(k) : k \in Within(graph, {1}, MaxNodes)}

\* C12: a scan of a malformed tree terminates and does not fail: on a tree
\* with a cycle the traversal that collects the nodes and the search for the
\* conflict node both stop, and when the conflict node cannot be located
\* from the root the path builder returns the one-hop path [root, conflict
\* node].
C12_MalformedTrees ==
  /\ ret.outcome # "RangeError"
  /\ (Returned("buildConflictPath") /\ args.name \notin Located(args.root))
       => ret.path = <<nodeName(1), args.name>>

-----------------------------------------------------------------------------
(* Deterministic mode.                                                     *)

\* C21: with CODICENSE_DETERMINISTIC=1, two ILI scans of the same tree and
\* context return results equal in every field: scan id, timestamp, every
\* conflict's id and the keys of the conflict-path map.
C21_Deterministic ==
  deterministic =>
    \A i, j \in 1..Len(log) :
      (SameScan(log[i], log[j]) /\ log[i].op = "iliScan") => log[i].ret = log[j].ret

-----------------------------------------------------------------------------
(* The conflict of a node with alternative licenses.                       *)

\* The verdict on an alternative under the scan's configuration.
AltVerdict(id) ==
  isCompatible(rules, args.config.projectLicense, id, args.config.linkingModel,
               args.config.distributionModel, args.config.strictMode)

\* The position of the worst alternative of a: none is graded above it and
\* every earlier one is graded below it.
Worst(a) ==
  CHOOSE w \in 1..Len(a) :
    /\ \A i \in 1..Len(a) :
         severityWeight(AltVerdict(a[i]).severity) <= severityWeight(AltVerdict(a[w]).severity)
    /\ \A i \in 1..(w - 1) :
         severityWeight(AltVerdict(a[i]).severity) < severityWeight(AltVerdict(a[w]).severity)

\* Whether a conflict describes the alternative id of the node: verdict,
\* recorded license, last segment of the contamination path and fixes.
Describes(conflict, node, id) ==
  /\ conflict.severity = AltVerdict(id).severity
  /\ conflict.reason = AltVerdict(id).reason
  /\ conflict.triggeredRule.id = (IF AltVerdict(id).ruleId \in {"undefined", ""}
                                  THEN "UNKNOWN" ELSE AltVerdict(id).ruleId)
  /\ conflict.triggeredRule.isHeuristic = AltVerdict(id).isHeuristic
  /\ conflict.dependency.license = id
  /\ conflict.contaminationPath[Len(conflict.contaminationPath)]
       = node.name \o " (" \o id \o ") <- CONFLICT"
  /\ conflict.fixes = suggestFixes(args.config, node, id)

\* C22: when every alternative of a node is incompatible, the Conflict of the
\* node describes the worst alternative (CRITICAL above HIGH above MEDIUM
\* above LOW, the first on a tie): its severity, reason and triggered rule,
\* and its license in the dependency summary, the contamination path and the
\* fixes.
C22_WorstAlternative ==
  ( /\ Returned("scan")
    /\ Len(args.root.children) = 1
    /\ args.root.children[1].name = "dual" ) =>
      \A a \in AltLists \ {<<>>} :
        ( /\ args.root.children[1].license \in Offers(a)
          /\ \A i \in 1..Len(a) : ~AltCompatible(a[i]) ) =>
            /\ Len(ret.conflicts) = 1
            /\ Describes(ret.conflicts[1], args.root.children[1], a[Worst(a)])

-----------------------------------------------------------------------------
(* Conflict paths.                                                         *)

\* Whether names[i..] is a chain of the tree from node downwards: each
\* element a child of the one before.
RECURSIVE ChainFrom(_, _, _)
ChainFrom(node, names, i) ==
  /\ node.name = names[i]
  /\ \/ i = Len(names)
     \/ \E c \in 1..Len(node.children) : ChainFrom(node.children[c], names, i + 1)

\* C23: whenever the tree has a node of the conflict's package name, the path
\* of the conflict is a chain of the tree from the root to that package, each
\* element a child of the one before, wherever else the name occurs and
\* whatever subtree was explored first; the pair of root and conflict node
\* stands in for the chain only when no such node can be reached.
C23_TrueChain ==
  Returned("iliScan") =>
    \A k \in 1..Len(ret.conflicts) :
      (\E n \in TreeNodes(args.root) : n.name = ret.conflicts[k].dependency.name) =>
        /\ ret.conflicts[k].conflictPath.path[1] = args.root.name
        /\ ret.conflicts[k].conflictPath.path[Len(ret.conflicts[k].conflictPath.path)]
             = ret.conflicts[k].dependency.name
        /\ ChainFrom(args.root, ret.conflicts[k].conflictPath.path, 1)

-----------------------------------------------------------------------------
(* The ranking of an orchestrated scan.                                    *)

\* The packages of a ranking.
Ranked(impacts) == {impacts[k].packageName : k \in 1..Len(impacts)}

\* C24: for an ILI scan result with at least one conflict, analyze on the
\* result's conflicts and risk score, as the CLI calls it, returns a ranking
\* that is not empty and holds every conflicting package, however severe the
\* conflicts are.
C24_RankingNotEmpty ==
  (Returned("iliScan") /\ Len(ret.conflicts) >= 1) =>
    /\ analyze(ret.enhancedConflicts, ret.riskScore) # <<>>
    /\ \A k \in 1..Len(ret.conflicts) :
         ret.conflicts[k].dependency.name
           \in Ranked(analyze(ret.enhancedConflicts, ret.riskScore))

-----------------------------------------------------------------------------
(* The summary of a scan result.                                           *)

\* C25: in every scan result, of ConflictDetector.scan and of
\* ILIScanner.scan, summary.conflicts is the number of conflicts of the
\* result and the sum of the critical, high, medium and low counts.
C25_SummaryAddsUp ==
  (Returned("scan") \/ Returned("iliScan")) =>
    /\ ret.summary.conflicts = Len(ret.conflicts)
    /\ ret.summary.conflicts
         = ret.summary.critical + ret.summary.high + ret.summary.medium + ret.summary.low

-----------------------------------------------------------------------------
(* The risk score of ILIScanner.scan over growing trees.                   *)

\* The last dependency the root declares.
LastDeclared == args.root.children[Len(args.root.children)]

\* The tree without the last dependency the root declares.
WithoutLast == [args.root EXCEPT !.children = SubSeq(@, 1, Len(@) - 1)]

\* The scanned tree is another tree and one more conflicting dependency.
OneMoreConflict ==
  /\ Returned("iliScan")
  /\ Len(args.root.children) >= 1
  /\ LastDeclared.children = <<>>
  /\ \E k \in 1..Len(ret.conflicts) : RefersTo(ret.conflicts[k], LastDeclared)

\* C26: the risk score of ILIScanner.scan lies in 0..100 and is monotone in
\* the conflicts found: a tree with one more conflicting dependency, all else
\* unchanged, never reports less risk than the tree without it.
C26_Monotone ==
  /\ Returned("iliScan") => ret.riskScore \in 0..100
  /\ OneMoreConflict =>
       iliScan(rules, WithoutLast, args.projectContext).riskScore <= ret.riskScore

-----------------------------------------------------------------------------
(* The license-family table under open-source intent.                      *)

\* The license-family table: a GPL-3.0 project accepts AGPL-3.0 and LGPL-3.0,
\* a GPL-2.0 project accepts LGPL-2.1, an AGPL project accepts every GPL and
\* AGPL license.
FamilyAccepts(projectLicense, license) ==
  \/ /\ normalizeLicense(projectLicense) = "GPL-3.0"
     /\ normalizeLicense(license) \in {"AGPL-3.0", "LGPL-3.0"}
  \/ /\ normalizeLicense(projectLicense) = "GPL-2.0"
     /\ normalizeLicense(license) = "LGPL-2.1"
  \/ /\ includes(projectLicense, "AGPL")
     /\ StrongCopyleft(license)

\* C27: under open-source intent with a declared project license that differs
\* from the dependency license, every dependency the license-family table
\* accepts is graded safe, GPL-2.0 and GPL-3.0 under an AGPL-3.0 project
\* among them.
C27_FamilySafe ==
  ( /\ Returned("calculateSeverity")
    /\ args.context.intent = "open-source"
    /\ Declared(EffectiveLicense)
    /\ normalizeLicense(args.dependencyLicense) # normalizeLicense(EffectiveLicense)
    /\ FamilyAccepts(EffectiveLicense, args.dependencyLicense) ) =>
      ret.level = "safe"

-----------------------------------------------------------------------------
(* The rule named by a conflict path.                                      *)

RuleTags ==
  {"copyleft-contamination", "network-copyleft", "weak-copyleft-static-link",
   "license-mismatch"}

\* The id under which checkNode reports the verdict on an alternative of a
\* node, under the configuration the ILI scan hands to the detector.
ReportedRule(id) ==
  IF isCompatible(rules, orUnknown(args.projectContext.projectLicense), trim(id),
                  args.projectContext.linkingModel, args.projectContext.distributionModel,
                  FALSE).ruleId \in {"undefined", ""}
  THEN "UNKNOWN"
  ELSE isCompatible(rules, orUnknown(args.projectContext.projectLicense), trim(id),
                    args.projectContext.linkingModel, args.projectContext.distributionModel,
                    FALSE).ruleId

\* The rule ids of the alternatives of the node a conflict names.
ReportedRules(conflict) ==
  UNION {{ReportedRule(licensesOf(n)[i]) : i \in 1..Len(licensesOf(n))} :
           n \in {m \in TreeNodes(args.root) : RefersTo(conflict, m)}}

\* C28: for every conflict of an ILI scan result the ruleTriggered tag of its
\* conflict path is one of copyleft-contamination, network-copyleft,
\* weak-copyleft-static-link and license-mismatch, and is determined by the
\* project license and the conflicting license alone.
C28_Original ==
  Returned("iliScan") =>
    \A k \in 1..Len(ret.conflicts) :
      /\ ret.conflicts[k].conflictPath.ruleTriggered \in RuleTags
      /\ ret.conflicts[k].conflictPath.ruleTriggered
           = identifyRule(orUnknown(args.projectContext.projectLicense),
                          ret.conflicts[k].dependency.license)

\* C28 as the code has it: the ruleTriggered of a conflict path is the id of
\* the rule that triggered the conflict, the matrix rule or heuristic that
\* judged one of the node's alternatives under the project license, linking
\* model and distribution model of the context; it is never one of the four
\* tags.
C28_Amended ==
  Returned("iliScan") =>
    \A k \in 1..Len(ret.conflicts) :
      /\ ret.conflicts[k].conflictPath.ruleTriggered = ret.conflicts[k].triggeredRule.id
      /\ ret.conflicts[k].conflictPath.ruleTriggered \in ReportedRules(ret.conflicts[k])
      /\ ret.conflicts[k].conflictPath.ruleTriggered \notin RuleTags

\* C28 witness: an ILI scan of an MIT project has found a GPL-3.0 conflict
\* whose path names the matrix rule and an MPL-1.1 conflict whose path names
\* another rule.
C28_Witness ==
  /\ Returned("iliScan")
  /\ Len(ret.conflicts) = 2
  /\ ret.conflicts[1].dependency.license = "GPL-3.0"
  /\ ret.conflicts[1].conflictPath.ruleTriggered = "MIT_GPL3.0_STA_PRO_006"
  /\ ret.conflicts[2].dependency.license = "MPL-1.1"
  /\ ret.conflicts[2].conflictPath.ruleTriggered # ret.conflicts[1].conflictPath.ruleTriggered

-----------------------------------------------------------------------------
(* The fixes seeded on a conflict.                                         *)

\* Whether the fixes of a conflict hold one of the type.
Seeded(conflict, type) == \E i \in 1..Len(conflict.fixes) : conflict.fixes[i].type = type

\* C29: on every Conflict a replace fix is present whenever the conflicting
\* license is strong or network copyleft, an architectural fix whenever the
\* linking model is static, whatever the license, and a relicense fix only
\* when the distribution model is open-source.
C29_Original ==
  Returned("scan") =>
    \A k \in 1..Len(ret.conflicts) :
      /\ StrongCopyleft(ret.conflicts[k].dependency.license) => Seeded(ret.conflicts[k], "replace")
      /\ args.config.linkingModel = "static" => Seeded(ret.conflicts[k], "architectural")
      /\ Seeded(ret.conflicts[k], "relicense") => args.config.distributionModel = "open-source"

\* C29 as the code has it: fixes are seeded only on a conflict whose recorded
\* license contains GPL.  Such a conflict has a replace fix, an architectural
\* fix exactly when the linking model is static and a relicense fix exactly
\* when the distribution model is open-source; any other conflict has no fix.
C29_Amended ==
  Returned("scan") =>
    \A k \in 1..Len(ret.conflicts) :
      IF includes(ret.conflicts[k].dependency.license, "GPL")
      THEN /\ Seeded(ret.conflicts[k], "replace")
           /\ Seeded(ret.conflicts[k], "architectural") <=> args.config.linkingModel = "static"
           /\ Seeded(ret.conflicts[k], "relicense")
                <=> args.config.distributionModel = "open-source"
      ELSE ret.conflicts[k].fixes = <<>>

\* C29 witness: a scan under static linking has found a GPL-3.0 conflict with
\* a replace and an architectural fix and an MPL-1.1 conflict without fixes.
C29_Witness ==
  /\ Returned("scan")
  /\ args.config.linkingModel = "static"
  /\ Len(ret.conflicts) = 2
  /\ ret.conflicts[1].dependency.license = "GPL-3.0"
  /\ Seeded(ret.conflicts[1], "replace")
  /\ Seeded(ret.conflicts[1], "architectural")
  /\ ~Seeded(ret.conflicts[1], "relicense")
  /\ ret.conflicts[2].dependency.license = "MPL-1.1"
  /\ ret.conflicts[2].fixes = <<>>

-----------------------------------------------------------------------------
(* The order of the causal impacts.                                        *)

\* Whether impact a stands before impact b: the greater contribution, then
\* the greater number of conflicts, then the name that collates first.
Precedes(a, b) ==
  \/ a.riskContribution > b.riskContribution
  \/ /\ a.riskContribution = b.riskContribution
     /\ a.conflictsRemoved > b.conflictsRemoved
  \/ /\ a.riskContribution = b.riskContribution
     /\ a.conflictsRemoved = b.conflictsRemoved
     /\ localeCompare(a.packageName, b.packageName) < 0

\* The orders in which the conflicts of s can be supplied.
Reordered(s) ==
  {[k \in 1..Len(s) |-> s[q[k]]] :
     q \in {f \in [1..Len(s) -> 1..Len(s)] : \A i, j \in 1..Len(s) : f[i] = f[j] => i = j}}

\* C30: the list analyze returns is sorted by risk contribution descending,
\* then by conflict count descending, then by package name ascending; no two
\* entries compare equal, and the list is the same in whatever order the
\* conflicts are supplied.
C30_SortedRanking ==
  Returned("analyze") =>
    /\ \A i, j \in 1..Len(ret) : i < j => Precedes(ret[i], ret[j])
    /\ \A s \in Reordered(args.conflicts) : analyze(s, args.currentRiskScore) = ret

\* C30 witness: analyze has ranked two packages of equal contribution and
\* equal conflict count by name, the package of the first conflict supplied
\* after the package of the second.
C30_Witness ==
  /\ Returned("analyze")
  /\ Len(args.conflicts) = 2
  /\ Len(ret) = 2
  /\ ret[1].riskContribution = ret[2].riskContribution
  /\ ret[1].conflictsRemoved = ret[2].conflictsRemoved
  /\ ret[1].packageName = args.conflicts[2].dependency.name
  /\ ret[2].packageName = args.conflicts[1].dependency.name

====
